---- MODULE Spec2Model ----
(***************************************************************************)
(* Smiles Dental Care assistant: the multi-turn booking dialogue of        *)
(* app.py (run_booking_flow and the chat routing of user_dashboard), the   *)
(* booking store behind modules/db.py and modules/supabase_client.py, and  *)
(* the confirmation e-mail.                                                *)
(*                                                                         *)
(* Text is a sequence of one-character strings, so that strip, lower,      *)
(* strptime, strftime and isoformat are computed and not assumed.          *)
(* Python's None is the empty tuple and a present value x is <<x>>.        *)
(***************************************************************************)
EXTENDS Integers, Sequences, FiniteSets, TLC

\* ------------------------------------------------------------------------
\* Bounds of the model
\* ------------------------------------------------------------------------
MaxBookings == 2
MaxTicks == 1

\* ------------------------------------------------------------------------
\* Optional values
\* ------------------------------------------------------------------------
None == <<>>
Some(x) == <<x>>

\* ------------------------------------------------------------------------
\* Text
\* ------------------------------------------------------------------------
Digits == <<"0", "1", "2", "3", "4", "5", "6", "7", "8", "9">>
UpperCase == <<"A", "B", "C", "D", "E", "F", "G", "H", "I", "J", "K", "L", "M", "N", "O", "P", "Q", "R", "S", "T", "U", "V", "W", "X", "Y", "Z">>
LowerCase == <<"a", "b", "c", "d", "e", "f", "g", "h", "i", "j", "k", "l", "m", "n", "o", "p", "q", "r", "s", "t", "u", "v", "w", "x", "y", "z">>
WhiteSpace == {" ", "\n", "\r", "\t"}

IsDigit(c) == \E i \in 1..10 : Digits[i] = c
DigitVal(c) == (CHOOSE i \in 1..10 : Digits[i] = c) - 1

LowerChar(c) == IF \E i \in 1..26 : UpperCase[i] = c THEN LowerCase[CHOOSE i \in 1..26 : UpperCase[i] = c] ELSE c
Lower(txt) == [i \in 1..Len(txt) |-> LowerChar(txt[i])]

\* str.strip(): drops leading and trailing whitespace
Strip(txt) ==
    LET keep == {i \in 1..Len(txt) : txt[i] \notin WhiteSpace}
    IN  IF keep = {} THEN <<>>
        ELSE LET lo == CHOOSE i \in keep : \A j \in keep : i <= j
                 hi == CHOOSE i \in keep : \A j \in keep : j <= i
             IN  SubSeq(txt, lo, hi)

\* `sub in txt`
Contains(sub, txt) == \E i \in 0..(Len(txt) - Len(sub)) : SubSeq(txt, i + 1, i + Len(sub)) = sub

AllDigits(txt) == \A i \in 1..Len(txt) : IsDigit(txt[i])

RECURSIVE ToInt(_)
ToInt(txt) == IF txt = <<>> THEN 0 ELSE 10 * ToInt(SubSeq(txt, 1, Len(txt) - 1)) + DigitVal(txt[Len(txt)])

Pad2(n) == <<Digits[(n \div 10) + 1], Digits[(n % 10) + 1]>>
Pad4(n) == <<Digits[(n \div 1000) + 1], Digits[((n \div 100) % 10) + 1]>> \o Pad2(n % 100)

\* the fields of txt between occurrences of the literal sep
RECURSIVE Split(_, _)
Split(txt, sep) ==
    IF \E i \in 1..Len(txt) : txt[i] = sep
    THEN LET p == CHOOSE i \in 1..Len(txt) : txt[i] = sep /\ \A j \in 1..(i - 1) : txt[j] # sep
         IN  <<SubSeq(txt, 1, p - 1)>> \o Split(SubSeq(txt, p + 1, Len(txt)), sep)
    ELSE <<txt>>

\* "".join(ch for ch in msg if ch.isdigit())
DigitsOf(txt) == SelectSeq(txt, IsDigit)

\* len(value.splitlines()) > 1: a line terminator ("\r\n" counting as one)
\* that is followed by more text
HasLineBreak(txt) ==
    \E i \in 1..Len(txt) :
        /\ txt[i] \in {"\n", "\r"}
        /\ \A j \in 1..(i - 1) : txt[j] \notin {"\n", "\r"}
        /\ LET w == IF txt[i] = "\r" /\ i < Len(txt) /\ txt[i + 1] = "\n" THEN 2 ELSE 1
           IN  i + w - 1 < Len(txt)

\* ------------------------------------------------------------------------
\* Calendar dates <<year, month, day>> and datetime.strptime / strftime
\* ------------------------------------------------------------------------
IsLeap(y) == (y % 4 = 0 /\ y % 100 # 0) \/ y % 400 = 0
DaysIn(y, m) == IF m = 2 THEN (IF IsLeap(y) THEN 29 ELSE 28)
                ELSE IF m \in {4, 6, 9, 11} THEN 30 ELSE 31
ValidDate(y, m, d) == y \in 1..9999 /\ m \in 1..12 /\ d \in 1..DaysIn(y, m)

\* date.__lt__
DateLess(a, b) == \/ a[1] < b[1]
                  \/ a[1] = b[1] /\ a[2] < b[2]
                  \/ a[1] = b[1] /\ a[2] = b[2] /\ a[3] < b[3]

NextDay(a) == IF a[3] < DaysIn(a[1], a[2]) THEN <<a[1], a[2], a[3] + 1>>
              ELSE IF a[2] < 12 THEN <<a[1], a[2] + 1, 1>>
              ELSE <<a[1] + 1, 1, 1>>

\* date.isoformat() and date.strftime('%Y-%m-%d')
isoformat(a) == Pad4(a[1]) \o <<"-">> \o Pad2(a[2]) \o <<"-">> \o Pad2(a[3])

\* The directives of strptime: %Y is four digits, the others one or two.
FieldY(f) == Len(f) = 4 /\ AllDigits(f)
Field12(f, lo, hi) == Len(f) \in {1, 2} /\ AllDigits(f) /\ ToInt(f) \in lo..hi

\* datetime.strptime(txt, fmt).date() for the three formats of
\* parse_date_from_text; None stands for ValueError.
DateFormats == <<[sep |-> "-", order |-> "Ymd"], [sep |-> "-", order |-> "dmY"], [sep |-> "/", order |-> "dmY"]>>

strptime_date(txt, fmt) ==
    LET f == Split(txt, fmt.sep)
    IN  IF Len(f) # 3 THEN None
        ELSE LET fy == IF fmt.order = "Ymd" THEN f[1] ELSE f[3]
                 fm == f[2]
                 fd == IF fmt.order = "Ymd" THEN f[3] ELSE f[1]
             IN  IF FieldY(fy) /\ Field12(fm, 1, 12) /\ Field12(fd, 1, 31)
                    /\ ValidDate(ToInt(fy), ToInt(fm), ToInt(fd))
                 THEN Some(<<ToInt(fy), ToInt(fm), ToInt(fd)>>)
                 ELSE None

RECURSIVE TryDateFormats(_, _)
TryDateFormats(txt, k) ==
    IF k > Len(DateFormats) THEN None
    ELSE IF strptime_date(txt, DateFormats[k]) # None THEN strptime_date(txt, DateFormats[k])
    ELSE TryDateFormats(txt, k + 1)

parse_date_from_text(txt) == TryDateFormats(Strip(txt), 1)

\* datetime.strptime(txt, "%H:%M" | "%H:%M:%S").time().strftime("%H:%M")
strptime_time(txt, withSeconds) ==
    LET f == Split(txt, ":")
    IN  IF Len(f) # (IF withSeconds THEN 3 ELSE 2) THEN None
        ELSE IF Field12(f[1], 0, 23) /\ Field12(f[2], 0, 59)
                /\ (withSeconds => Field12(f[3], 0, 59))
             THEN Some(Pad2(ToInt(f[1])) \o <<":">> \o Pad2(ToInt(f[2])))
             ELSE None

parse_time_from_text(txt) ==
    LET t == Strip(txt)
    IN  IF strptime_time(t, FALSE) # None THEN strptime_time(t, FALSE)
        ELSE strptime_time(t, TRUE)

\* ------------------------------------------------------------------------
\* Booking intent
\* ------------------------------------------------------------------------
IntentKeywords == {<<"b", "o", "o", "k">>,
                   <<"a", "p", "p", "o", "i", "n", "t", "m", "e", "n", "t">>,
                   <<"s", "c", "h", "e", "d", "u", "l", "e">>,
                   <<"v", "i", "s", "i", "t">>,
                   <<"s", "l", "o", "t">>,
                   <<"c", "o", "n", "s", "u", "l", "t", "a", "t", "i", "o", "n">>}

detect_booking_intent(msg) == \E k \in IntentKeywords : Contains(k, Lower(msg))

\* ------------------------------------------------------------------------
\* The messages a user types (st.chat_input never delivers an empty string)
\* ------------------------------------------------------------------------
MsgBook == <<"b", "o", "o", "k">>
MsgCleaning == <<"C", "l", "e", "a", "n", "i", "n", "g">>
MsgDate2999 == <<"2", "9", "9", "9", "-", "0", "1", "-", "0", "1">>
MsgDate2000 == <<"2", "0", "0", "0", "-", "0", "1", "-", "0", "1">>
MsgDateNewYearsEve == <<"3", "1", "/", "1", "2", "/", "2", "0", "2", "4">>
MsgTime0900 == <<"0", "9", ":", "0", "0">>
MsgTime9 == <<"9", ":", "0", "0">>
MsgTime2500 == <<"2", "5", ":", "0", "0">>
MsgPhone10 == <<"1", "2", "3", "4", "5", "6", "7", "8", "9", "0">>
MsgPhoneShort == <<"1", "2", "3", "4", "5">>
MsgYes == <<"y", "e", "s">>
MsgCancel == <<"c", "a", "n", "c", "e", "l">>
MsgStop == <<"s", "t", "o", "p">>
MsgExit == <<"e", "x", "i", "t">>
MsgYesUpper == <<"Y", "E", "S">>
MsgYUpper == <<"Y">>
MsgConfirmCap == <<"C", "o", "n", "f", "i", "r", "m">>
MsgConfirm == <<"c", "o", "n", "f", "i", "r", "m">>

MsgYesPadded == <<" ", "Y", "e", "s", " ">>
MsgNo == <<"N", "o">>
MsgNUpper == <<"N">>
MsgCancelUpper == <<"C", "A", "N", "C", "E", "L">>
MsgMaybe == <<"m", "a", "y", "b", "e">>
MsgPhoneFormatted == <<"+", "1", " ", "(", "5", "5", "5", ")", " ", "1", "2", "3", "-", "4", "5", "6", "7">>
MsgPhone7 == <<"5", "5", "5", "-", "1", "2", "3", "4">>
MsgPhone6 == <<"5", "5", "5", " ", "1", "2", "3">>
MsgPhoneInWords == <<"c", "a", "l", "l", " ", "5", "5", "5", "1", "2", "3", "4", " ", "x", "9">>
MsgQuestion == <<"d", "o", "e", "s", " ", "f", "l", "o", "s", "s", "i", "n", "g", " ", "h", "u", "r", "t">>
AllMessages == {MsgBook, MsgCleaning, MsgDate2999, MsgDate2000, MsgDateNewYearsEve, MsgTime0900, MsgTime9, MsgTime2500, MsgPhone10, MsgPhoneShort, MsgYes, MsgCancel, MsgStop, MsgExit,
                MsgYesUpper, MsgYUpper, MsgConfirmCap, MsgYesPadded, MsgNo, MsgNUpper, MsgCancelUpper, MsgMaybe,
                MsgPhoneFormatted, MsgPhone7, MsgPhone6, MsgPhoneInWords, MsgQuestion}
Messages == {MsgBook, MsgCleaning, MsgDate2999, MsgDate2000, MsgTime0900, MsgTime9, MsgTime2500, MsgPhone10, MsgPhoneShort, MsgYes, MsgCancel, MsgStop, MsgExit}

\* What run_booking_flow and the routing derive from the text of a message,
\* computed once per message
Lex == [m \in AllMessages |->
           [msg |-> Strip(m),
            lower |-> Lower(Strip(m)),
            date |-> parse_date_from_text(Strip(m)),
            time |-> parse_time_from_text(Strip(m)),
            digits |-> DigitsOf(Strip(m)),
            intent |-> detect_booking_intent(m)]]

\* ------------------------------------------------------------------------
\* The users table, and the sessions of the Streamlit server
\* ------------------------------------------------------------------------
UserRows == <<[id |-> 1, name |-> <<"A", "n", "n">>, email |-> <<"a", "@", "b", ".", "c">>, phone |-> Some(<<"5", "5", "5", "1", "2", "3", "4">>), role |-> "user"],
              [id |-> 2, name |-> <<"B", "o", "b">>, email |-> <<"b", "@", "c", ".", "d", "\r", "\n", "B", "c", "c", ":", " ", "e", "@", "f", ".", "g">>, phone |-> None, role |-> "user"]>>

\* ------------------------------------------------------------------------
\* State
\* ------------------------------------------------------------------------
VARIABLES
    configured,   \* the Supabase settings are usable (get_settings is cached)
    client,       \* supabase_client._client
    today,        \* date.today()
    store,        \* the rows of the bookings table, in insertion order
    user,         \* st.session_state.user of each session
    booking_flow, \* st.session_state.booking_flow of each session
    emails,       \* number of send_booking_email calls made so far
    turn,         \* what the last handled event did: calls made, reply shown
    script,       \* per session, how far its messages have followed Script
    imports,      \* which optional imports of app.py and rag_pipeline.py succeeded
    rag_index,    \* st.session_state.rag_index of each session
    disk,         \* vector_store/: the index and metadata file of each user
    ingest,       \* per session, where its run of ingest_pdfs_for_rag stands
    calc          \* arguments and result of a function applied on its own

ragVars == <<imports, rag_index, disk, ingest, calc>>

vars == <<configured, client, today, store, user, booking_flow, emails, turn, script,
          imports, rag_index, disk, ingest, calc>>

Today0 == <<2024, 12, 31>>

RECURSIVE DayAfter(_)
DayAfter(n) == IF n = 0 THEN Today0 ELSE NextDay(DayAfter(n - 1))

\* ------------------------------------------------------------------------
\* The session's booking flow
\* ------------------------------------------------------------------------
EmptySlots == [name |-> None, email |-> None, phone |-> None,
               booking_type |-> None, date |-> None, time |-> None]

reset_booking_flow == [active |-> FALSE, slots |-> EmptySlots,
                       awaiting_field |-> "None", booking_id |-> None]

\* user.get("phone")
UserPhone(u) == IF "phone" \in DOMAIN u THEN u.phone ELSE None

\* ------------------------------------------------------------------------
\* The data client and its wrappers
\* ------------------------------------------------------------------------
\* get_client(): creates the client once and caches it; raises when the
\* settings cannot be used
get_client(c, cfg) ==
    IF c # "None" THEN [client |-> c, raised |-> FALSE]
    ELSE IF cfg THEN [client |-> "Client", raised |-> FALSE]
    ELSE [client |-> "None", raised |-> TRUE]

\* authenticate(): the dict built from the matching row
authenticate(row) == [id |-> row.id, name |-> row.name, email |-> row.email, role |-> row.role]

\* variant: a failing select is logged and the rows are still returned
list_bookings_RowsOnError(c, cfg, rows, outcome) ==
    IF get_client(c, cfg).raised THEN [raised |-> TRUE, rows |-> <<>>, result |-> "raised"]
    ELSE IF outcome = "error" THEN [raised |-> FALSE, rows |-> rows, result |-> "error_logged"]
    ELSE [raised |-> FALSE, rows |-> rows, result |-> "ok"]

\* list_bookings(): get_client() is called outside the try; a failing
\* select is logged and answered with []
list_bookings(c, cfg, rows, outcome) ==
    IF get_client(c, cfg).raised THEN [raised |-> TRUE, rows |-> <<>>, result |-> "raised"]
    ELSE IF outcome = "error" THEN [raised |-> FALSE, rows |-> <<>>, result |-> "error_logged"]
    ELSE [raised |-> FALSE, rows |-> rows, result |-> "ok"]

\* variant: an insert that returned no rows still yields an id
save_booking_IdWithoutRow(c, cfg, rows, user_id, date, time, booking_type, outcome) ==
    LET row == [id |-> Len(rows) + 1, appt_date |-> isoformat(date),
                appt_time |-> time, status |-> "Pending"]
    IN  IF get_client(c, cfg).raised THEN [raised |-> TRUE, id |-> None, rows |-> rows, result |-> "raised"]
        ELSE IF outcome = "error" THEN [raised |-> FALSE, id |-> None, rows |-> rows, result |-> "error_logged"]
        ELSE IF outcome = "norows" THEN [raised |-> FALSE, id |-> Some(row.id), rows |-> rows, result |-> "no_rows"]
        ELSE [raised |-> FALSE, id |-> Some(row.id), rows |-> Append(rows, row), result |-> "ok"]

\* supabase_client.save_booking() behind db.save_booking(): one insert with
\* status "Pending"; the id of the inserted row, or None
\* variant: the insert is refused when a live booking holds the slot
save_booking_Unique(c, cfg, rows, user_id, date, time, booking_type, outcome) ==
    LET row == [id |-> Len(rows) + 1, appt_date |-> isoformat(date),
                appt_time |-> time, status |-> "Pending"]
    IN  IF get_client(c, cfg).raised THEN [raised |-> TRUE, id |-> None, rows |-> rows, result |-> "raised"]
        ELSE IF outcome = "error" THEN [raised |-> FALSE, id |-> None, rows |-> rows, result |-> "error_logged"]
        ELSE IF \E i \in 1..Len(rows) : /\ rows[i].appt_date = row.appt_date
                                         /\ rows[i].appt_time = row.appt_time
                                         /\ rows[i].status # "Cancelled"
             THEN [raised |-> FALSE, id |-> None, rows |-> rows, result |-> "no_rows"]
        ELSE IF outcome = "norows" THEN [raised |-> FALSE, id |-> None, rows |-> rows, result |-> "no_rows"]
        ELSE [raised |-> FALSE, id |-> Some(row.id), rows |-> Append(rows, row), result |-> "ok"]

\* supabase_client.save_booking() behind db.save_booking()
save_booking(c, cfg, rows, user_id, date, time, booking_type, outcome) ==
    LET row == [id |-> Len(rows) + 1, appt_date |-> isoformat(date),
                appt_time |-> time, status |-> "Pending"]
    IN  IF get_client(c, cfg).raised THEN [raised |-> TRUE, id |-> None, rows |-> rows, result |-> "raised"]
        ELSE IF outcome = "error" THEN [raised |-> FALSE, id |-> None, rows |-> rows, result |-> "error_logged"]
        ELSE IF outcome = "norows" THEN [raised |-> FALSE, id |-> None, rows |-> rows, result |-> "no_rows"]
        ELSE [raised |-> FALSE, id |-> Some(row.id), rows |-> Append(rows, row), result |-> "ok"]

has_booking_conflict(rows, appt_date, appt_time) ==
    \E i \in 1..Len(rows) :
        /\ rows[i].appt_date = isoformat(appt_date)
        /\ rows[i].appt_time = appt_time
        /\ rows[i].status # "Cancelled"

\* send_booking_email(): missing configuration and SMTP failures are logged;
\* building the message sits outside both try blocks, and the header
\* assignment raises ValueError on a value with an embedded line break
send_booking_email(to_email, outcome) ==
    IF outcome = "config" THEN "config_error_logged"
    ELSE IF HasLineBreak(to_email) THEN "raised"
    ELSE IF outcome = "smtp" THEN "smtp_error_logged"
    ELSE "sent"

\* ------------------------------------------------------------------------
\* run_booking_flow
\* ------------------------------------------------------------------------
Reply(kind, date, time, id) == [kind |-> kind, date |-> date, time |-> time, id |-> id]
Say(kind) == Reply(kind, None, None, None)

Call(fn, date, time, booking_type, id, result) ==
    [fn |-> fn, date |-> date, time |-> time, booking_type |-> booking_type, id |-> id, result |-> result]

Result(bf, rows, calls, reply, raised) ==
    [bf |-> bf, rows |-> rows, calls |-> calls, reply |-> reply, raised |-> raised]

YesWords == {<<"y", "e", "s">>, <<"y">>, <<"c", "o", "n", "f", "i", "r", "m">>}
NoWords == {<<"n", "o">>, <<"n">>, <<"c", "a", "n", "c", "e", "l">>}

\* the outcomes the collaborators can have during one turn
Outcomes == [list : {"ok", "error"}, save : {"ok", "norows", "error"}, mail : {"ok", "config", "smtp"}]

\* the branch of run_booking_flow for awaiting_field = "confirm"
\* variant: the confirmation is sent without a notification call
ConfirmStep_NoEmail(bf, lx, u, c, cfg, rows, env) ==
    LET slots == bf.slots
        sv == save_booking(c, cfg, rows, u.id, slots.date[1], slots.time[1], slots.booking_type, env.save)
        saveCall == Call("save_booking", slots.date, slots.time, slots.booking_type, sv.id, sv.result)
        mail == send_booking_email(slots.email[1], env.mail)
        mailCall == Call("send_booking_email", slots.date, slots.time, slots.booking_type, sv.id, mail)
    IN  IF lx.lower \in YesWords
        THEN IF sv.raised
             THEN Result(reset_booking_flow, sv.rows, <<saveCall>>, Say("booking_error"), FALSE)
             ELSE IF sv.id # None
             THEN Result(reset_booking_flow, sv.rows, <<saveCall>>,
                         Reply("confirmed", slots.date, slots.time, sv.id), FALSE)
             ELSE Result(reset_booking_flow, sv.rows, <<saveCall>>, Say("save_failed"), FALSE)
        ELSE IF lx.lower \in NoWords
        THEN Result(reset_booking_flow, rows, <<>>, Say("cancelled"), FALSE)
        ELSE Result(bf, rows, <<>>, Say("ask_yes_no"), FALSE)

\* variant: a failed commit leaves the session in the confirm step
ConfirmStep_KeepsOnFailure(bf, lx, u, c, cfg, rows, env) ==
    LET slots == bf.slots
        sv == save_booking(c, cfg, rows, u.id, slots.date[1], slots.time[1], slots.booking_type, env.save)
        saveCall == Call("save_booking", slots.date, slots.time, slots.booking_type, sv.id, sv.result)
        mail == send_booking_email(slots.email[1], env.mail)
        mailCall == Call("send_booking_email", slots.date, slots.time, slots.booking_type, sv.id, mail)
    IN  IF lx.lower \in YesWords
        THEN IF sv.raised
             THEN Result(bf, sv.rows, <<saveCall>>, Say("booking_error"), FALSE)
             ELSE IF sv.id # None
             THEN IF mail = "raised"
                  THEN Result(reset_booking_flow, sv.rows, <<saveCall, mailCall>>, Say("booking_error"), FALSE)
                  ELSE Result(reset_booking_flow, sv.rows, <<saveCall, mailCall>>,
                              Reply("confirmed", slots.date, slots.time, sv.id), FALSE)
             ELSE Result(bf, sv.rows, <<saveCall>>, Say("save_failed"), FALSE)
        ELSE IF lx.lower \in NoWords
        THEN Result(reset_booking_flow, rows, <<>>, Say("cancelled"), FALSE)
        ELSE Result(bf, rows, <<>>, Say("ask_yes_no"), FALSE)

\* variant: the answer is compared without lower-casing it
ConfirmStep_CaseSensitive(bf, lx, u, c, cfg, rows, env) ==
    LET slots == bf.slots
        sv == save_booking(c, cfg, rows, u.id, slots.date[1], slots.time[1], slots.booking_type, env.save)
        saveCall == Call("save_booking", slots.date, slots.time, slots.booking_type, sv.id, sv.result)
        mail == send_booking_email(slots.email[1], env.mail)
        mailCall == Call("send_booking_email", slots.date, slots.time, slots.booking_type, sv.id, mail)
    IN  IF lx.msg \in YesWords
        THEN IF sv.raised
             THEN Result(reset_booking_flow, sv.rows, <<saveCall>>, Say("booking_error"), FALSE)
             ELSE IF sv.id # None
             THEN IF mail = "raised"
                  THEN Result(reset_booking_flow, sv.rows, <<saveCall, mailCall>>, Say("booking_error"), FALSE)
                  ELSE Result(reset_booking_flow, sv.rows, <<saveCall, mailCall>>,
                              Reply("confirmed", slots.date, slots.time, sv.id), FALSE)
             ELSE Result(reset_booking_flow, sv.rows, <<saveCall>>, Say("save_failed"), FALSE)
        ELSE IF lx.msg \in NoWords
        THEN Result(reset_booking_flow, rows, <<>>, Say("cancelled"), FALSE)
        ELSE Result(bf, rows, <<>>, Say("ask_yes_no"), FALSE)

\* the branch of run_booking_flow for awaiting_field = "confirm"
ConfirmStep(bf, lx, u, c, cfg, rows, env) ==
    LET slots == bf.slots
        sv == save_booking(c, cfg, rows, u.id, slots.date[1], slots.time[1], slots.booking_type, env.save)
        saveCall == Call("save_booking", slots.date, slots.time, slots.booking_type, sv.id, sv.result)
        mail == send_booking_email(slots.email[1], env.mail)
        mailCall == Call("send_booking_email", slots.date, slots.time, slots.booking_type, sv.id, mail)
    IN  IF lx.lower \in YesWords
        THEN IF sv.raised
             THEN Result(reset_booking_flow, sv.rows, <<saveCall>>, Say("booking_error"), FALSE)
             ELSE IF sv.id # None
             THEN IF mail = "raised"
                  THEN Result(reset_booking_flow, sv.rows, <<saveCall, mailCall>>, Say("booking_error"), FALSE)
                  ELSE Result(reset_booking_flow, sv.rows, <<saveCall, mailCall>>,
                              Reply("confirmed", slots.date, slots.time, sv.id), FALSE)
             ELSE Result(reset_booking_flow, sv.rows, <<saveCall>>, Say("save_failed"), FALSE)
        ELSE IF lx.lower \in NoWords
        THEN Result(reset_booking_flow, rows, <<>>, Say("cancelled"), FALSE)
        ELSE Result(bf, rows, <<>>, Say("ask_yes_no"), FALSE)

\* the branch of run_booking_flow for awaiting_field = "time"
\* variant: the phone step is skipped whether or not a phone is on file
TimeStep_SkipsPhone(bf, lx, c, cfg, rows, env) ==
    LET slots == bf.slots
        parsed == lx.time
        lb == list_bookings(c, cfg, rows, env.list)
        listCall == Call("list_bookings", None, None, None, None, lb.result)
    IN  IF parsed = None THEN Result(bf, rows, <<>>, Say("time_unparsed"), FALSE)
        ELSE IF lb.raised THEN Result(bf, rows, <<listCall>>, Say("exception"), TRUE)
        ELSE IF has_booking_conflict(lb.rows, slots.date[1], parsed[1])
        THEN Result(bf, rows, <<listCall>>, Reply("slot_taken", slots.date, parsed, None), FALSE)
        ELSE Result([bf EXCEPT !.slots.time = parsed, !.awaiting_field = "confirm"],
                    rows, <<listCall>>, Reply("summary", slots.date, parsed, None), FALSE)

\* the branch of run_booking_flow for awaiting_field = "time"
TimeStep(bf, lx, c, cfg, rows, env) ==
    LET slots == bf.slots
        parsed == lx.time
        lb == list_bookings(c, cfg, rows, env.list)
        listCall == Call("list_bookings", None, None, None, None, lb.result)
    IN  IF parsed = None THEN Result(bf, rows, <<>>, Say("time_unparsed"), FALSE)
        ELSE IF lb.raised THEN Result(bf, rows, <<listCall>>, Say("exception"), TRUE)
        ELSE IF has_booking_conflict(lb.rows, slots.date[1], parsed[1])
        THEN Result(bf, rows, <<listCall>>, Reply("slot_taken", slots.date, parsed, None), FALSE)
        ELSE IF slots.phone = None \/ slots.phone = Some(<<>>)
        THEN Result([bf EXCEPT !.slots.time = parsed, !.awaiting_field = "phone"],
                    rows, <<listCall>>, Say("ask_phone"), FALSE)
        ELSE Result([bf EXCEPT !.slots.time = parsed, !.awaiting_field = "confirm"],
                    rows, <<listCall>>, Reply("summary", slots.date, parsed, None), FALSE)

\* variant: the entry does not set awaiting_field
EnterFlow_NoField(bf, u, rows) ==
    Result([bf EXCEPT !.active = TRUE,
                      !.slots.name = Some(u.name),
                      !.slots.email = Some(u.email),
                      !.slots.phone = UserPhone(u)],
           rows, <<>>, Say("start"), FALSE)

\* variant: the entry assigns a booking id to the session
EnterFlow_KeepsSession(bf, u, rows) ==
    Result([bf EXCEPT !.active = TRUE,
                      !.slots.name = Some(u.name),
                      !.slots.email = Some(u.email),
                      !.slots.phone = UserPhone(u),
                      !.booking_id = Some(1),
                      !.awaiting_field = "booking_type"],
           rows, <<>>, Say("start"), FALSE)

\* the entry of run_booking_flow: the message that starts the flow is consumed
EnterFlow(bf, u, rows) ==
    Result([bf EXCEPT !.active = TRUE,
                      !.slots.name = Some(u.name),
                      !.slots.email = Some(u.email),
                      !.slots.phone = UserPhone(u),
                      !.awaiting_field = "booking_type"],
           rows, <<>>, Say("start"), FALSE)

\* the branch for awaiting_field = "booking_type"
\* variant: the booking type is stored in lower case
TypeStep_Lowercased(bf, lx, rows) ==
    Result([bf EXCEPT !.slots.booking_type = Some(lx.lower), !.awaiting_field = "date"],
           rows, <<>>, Say("ask_date"), FALSE)

\* the branch for awaiting_field = "booking_type"
TypeStep(bf, lx, rows) ==
    Result([bf EXCEPT !.slots.booking_type = Some(lx.msg), !.awaiting_field = "date"],
           rows, <<>>, Say("ask_date"), FALSE)

\* the branch for awaiting_field = "date"
\* variant: a date before today is accepted
DateStep_NoPastCheck(bf, lx, rows, now) ==
    IF lx.date = None THEN Result(bf, rows, <<>>, Say("date_unparsed"), FALSE)
    ELSE Result([bf EXCEPT !.slots.date = lx.date, !.awaiting_field = "time"],
                rows, <<>>, Say("ask_time"), FALSE)

\* the branch for awaiting_field = "date"
DateStep(bf, lx, rows, now) ==
    IF lx.date = None THEN Result(bf, rows, <<>>, Say("date_unparsed"), FALSE)
    ELSE IF DateLess(lx.date[1], now) THEN Result(bf, rows, <<>>, Say("date_past"), FALSE)
    ELSE Result([bf EXCEPT !.slots.date = lx.date, !.awaiting_field = "time"],
                rows, <<>>, Say("ask_time"), FALSE)

\* variant: the phone slot keeps the text as typed
PhoneStep_KeepsText(bf, lx, rows) ==
    IF Len(lx.digits) < 7 THEN Result(bf, rows, <<>>, Say("phone_invalid"), FALSE)
    ELSE Result([bf EXCEPT !.slots.phone = Some(lx.msg), !.awaiting_field = "confirm"],
                rows, <<>>, Reply("summary", bf.slots.date, bf.slots.time, None), FALSE)

\* the branch for awaiting_field = "phone"
PhoneStep(bf, lx, rows) ==
    IF Len(lx.digits) < 7 THEN Result(bf, rows, <<>>, Say("phone_invalid"), FALSE)
    ELSE Result([bf EXCEPT !.slots.phone = Some(lx.digits), !.awaiting_field = "confirm"],
                rows, <<>>, Reply("summary", bf.slots.date, bf.slots.time, None), FALSE)

run_booking_flow(bf, user_message, u, c, cfg, rows, now, env) ==
    LET field == bf.awaiting_field
        lx == Lex[user_message]
    IN  IF ~bf.active THEN EnterFlow(bf, u, rows)
        ELSE IF field = "booking_type" THEN TypeStep(bf, lx, rows)
        ELSE IF field = "date" THEN DateStep(bf, lx, rows, now)
        ELSE IF field = "time" THEN TimeStep(bf, lx, c, cfg, rows, env)
        ELSE IF field = "phone" THEN PhoneStep(bf, lx, rows)
        ELSE IF field = "confirm" THEN ConfirmStep(bf, lx, u, c, cfg, rows, env)
        ELSE Result(bf, rows, <<>>, Say("start_over"), FALSE)

\* ------------------------------------------------------------------------
\* modules/rag_pipeline.py
\* ------------------------------------------------------------------------
Min(a, b) == IF a <= b THEN a ELSE b
Max(a, b) == IF a >= b THEN a ELSE b

\* str.split(): the maximal runs of characters that are not whitespace
RECURSIVE split(_)
split(txt) ==
    IF txt = <<>> THEN <<>>
    ELSE IF txt[1] \in WhiteSpace THEN split(Tail(txt))
    ELSE LET stops == {i \in 1..Len(txt) : txt[i] \in WhiteSpace}
             n == IF stops = {} THEN Len(txt) ELSE (CHOOSE i \in stops : \A j \in stops : i <= j) - 1
         IN  <<SubSeq(txt, 1, n)>> \o split(SubSeq(txt, n + 1, Len(txt)))

\* " ".join(words)
RECURSIVE join(_)
join(words) ==
    IF words = <<>> THEN <<>>
    ELSE IF Len(words) = 1 THEN words[1]
    ELSE words[1] \o <<" ">> \o join(Tail(words))

\* a slice words[start:end] with 0 <= start
Slice(words, start, end) == SubSeq(words, start + 1, Min(end, Len(words)))

\* variant: the next window starts where the last one ended
RECURSIVE chunk_from_NoOverlap(_, _, _, _)
chunk_from_NoOverlap(words, start, chunk_size, overlap) ==
    IF start >= Len(words) THEN <<>>
    ELSE LET end == start + chunk_size
         IN  <<join(Slice(words, start, end))>>
                 \o chunk_from_NoOverlap(words, Max(end, start + 1), chunk_size, overlap)

\* the while loop of chunk_text from position start on
RECURSIVE chunk_from(_, _, _, _)
chunk_from(words, start, chunk_size, overlap) ==
    IF start >= Len(words) THEN <<>>
    ELSE LET end == start + chunk_size
         IN  <<join(Slice(words, start, end))>>
                 \o chunk_from(words, Max(end - overlap, start + 1), chunk_size, overlap)

chunk_text(text, chunk_size, overlap) == chunk_from(split(text), 0, chunk_size, overlap)

\* the defaults of chunk_text, which build_index uses
DefaultChunkSize == 600
DefaultOverlap == 150

\* The sentence embedder, a deterministic function of the text. A vector is
\* a direction in the plane, a multiple of 60 degrees, and Cos2 is twice the
\* cosine of the angle between two of them; the vectors have unit length, so
\* the L2 distance of the index grows as the cosine falls.
Directions == 6
Encode(text) == Len(text) % Directions
Cos2(a, b) == <<2, 1, -1, -2, -1, 1>>[((a - b + Directions) % Directions) + 1]

\* embed(): None without a model or when encode() raises
embed(sbert, texts, outcome) ==
    IF sbert /\ outcome = "ok" THEN Some([i \in 1..Len(texts) |-> Encode(texts[i])]) ELSE None

\* maximal_marginal_relevance. Scores are four times those of the code
\* (lambda_mult = 0.5, Cos2 twice the cosine), which keeps their order.
\* Indices count from 0 as in the code.
mmr_score(query_embedding, chunk_embeddings, selected_indices, idx) ==
    LET relevance == Cos2(query_embedding, chunk_embeddings[idx + 1])
        diversity ==
            IF selected_indices = <<>> THEN 0
            ELSE LET sims == {Cos2(chunk_embeddings[idx + 1], chunk_embeddings[selected_indices[j] + 1]) :
                                 j \in 1..Len(selected_indices)}
                 IN  CHOOSE x \in sims : \A y \in sims : x >= y
    IN  relevance - diversity

\* variant: a candidate that equals the best score so far replaces it
RECURSIVE best_candidate_LastWins(_, _, _, _, _)
best_candidate_LastWins(query_embedding, chunk_embeddings, selected_indices, candidate_indices, best) ==
    IF candidate_indices = <<>> THEN best
    ELSE LET idx == Head(candidate_indices)
             score == mmr_score(query_embedding, chunk_embeddings, selected_indices, idx)
         IN  best_candidate_LastWins(query_embedding, chunk_embeddings, selected_indices, Tail(candidate_indices),
                                     IF best = None \/ score >= best[1].score
                                     THEN Some([idx |-> idx, score |-> score]) ELSE best)

\* the inner for loop: best is None for best_idx = -1, best_score = -inf
RECURSIVE best_candidate(_, _, _, _, _)
best_candidate(query_embedding, chunk_embeddings, selected_indices, candidate_indices, best) ==
    IF candidate_indices = <<>> THEN best
    ELSE LET idx == Head(candidate_indices)
             score == mmr_score(query_embedding, chunk_embeddings, selected_indices, idx)
         IN  best_candidate(query_embedding, chunk_embeddings, selected_indices, Tail(candidate_indices),
                            IF best = None \/ score > best[1].score
                            THEN Some([idx |-> idx, score |-> score]) ELSE best)

\* list.remove(x)
Remove(seq, x) == SelectSeq(seq, LAMBDA y : y # x)

\* variant: the chosen index stays among the candidates
RECURSIVE mmr_rounds_KeepsCandidate(_, _, _, _, _)
mmr_rounds_KeepsCandidate(query_embedding, chunk_embeddings, selected_indices, candidate_indices, rounds) ==
    IF rounds <= 0 THEN selected_indices
    ELSE LET best == best_candidate(query_embedding, chunk_embeddings, selected_indices, candidate_indices, None)
         IN  IF best = None THEN selected_indices
             ELSE mmr_rounds_KeepsCandidate(query_embedding, chunk_embeddings, Append(selected_indices, best[1].idx),
                                            candidate_indices, rounds - 1)

\* the outer for loop, `rounds` iterations left
RECURSIVE mmr_rounds(_, _, _, _, _)
mmr_rounds(query_embedding, chunk_embeddings, selected_indices, candidate_indices, rounds) ==
    IF rounds <= 0 THEN selected_indices
    ELSE LET best == best_candidate(query_embedding, chunk_embeddings, selected_indices, candidate_indices, None)
         IN  IF best = None THEN selected_indices
             ELSE mmr_rounds(query_embedding, chunk_embeddings, Append(selected_indices, best[1].idx),
                             Remove(candidate_indices, best[1].idx), rounds - 1)

maximal_marginal_relevance(query_embedding, chunk_embeddings, top_k) ==
    IF Len(chunk_embeddings) = 0 THEN <<>>
    ELSE mmr_rounds(query_embedding, chunk_embeddings, <<>>,
                    [i \in 1..Len(chunk_embeddings) |-> i - 1], top_k)

\* IndexFlatL2.search: the ids of the k stored vectors nearest to the query,
\* nearest first, equal distances in id order, filled up with -1
RECURSIVE nearest(_, _, _, _)
nearest(vectors, q_emb, ids, k) ==
    IF k <= 0 THEN <<>>
    ELSE IF ids = {} THEN <<-1>> \o nearest(vectors, q_emb, ids, k - 1)
    ELSE LET i == CHOOSE x \in ids : \A y \in ids :
                      \/ Cos2(q_emb, vectors[x + 1]) > Cos2(q_emb, vectors[y + 1])
                      \/ Cos2(q_emb, vectors[x + 1]) = Cos2(q_emb, vectors[y + 1]) /\ x <= y
         IN  <<i>> \o nearest(vectors, q_emb, ids \ {i}, k - 1)

search(vectors, q_emb, k) == nearest(vectors, q_emb, 0..(Len(vectors) - 1), k)

\* retrieve: the chunks returned, or raised when an id of the index has no
\* chunk in text_chunks (IndexError)
retrieve_returns(rp, query, top_k, query_outcome, chunks_outcome) ==
    IF rp.index = None \/ Len(rp.text_chunks) = 0 \/ ~rp.sbert
    THEN [raised |-> FALSE, chunks |-> <<>>]
    ELSE LET q_emb == embed(rp.sbert, <<query>>, query_outcome)
         IN  IF q_emb = None THEN [raised |-> FALSE, chunks |-> <<>>]
             ELSE LET fetch_k == Min(Len(rp.text_chunks), top_k * 4)
                      candidate_indices == SelectSeq(search(rp.index[1], q_emb[1][1], fetch_k), LAMBDA i : i # -1)
                  IN  IF \E j \in 1..Len(candidate_indices) : candidate_indices[j] >= Len(rp.text_chunks)
                      THEN [raised |-> TRUE, chunks |-> <<>>]
                      ELSE LET candidate_chunks == [j \in 1..Len(candidate_indices) |->
                                                       rp.text_chunks[candidate_indices[j] + 1]]
                               candidate_embeddings == embed(rp.sbert, candidate_chunks, chunks_outcome)
                           IN  IF candidate_embeddings = None
                               THEN [raised |-> FALSE, chunks |-> Slice(candidate_chunks, 0, top_k)]
                               ELSE LET selected == maximal_marginal_relevance(q_emb[1][1], candidate_embeddings[1], top_k)
                                    IN  [raised |-> FALSE,
                                         chunks |-> [j \in 1..Len(selected) |-> candidate_chunks[selected[j] + 1]]]

\* variant: a call drops the index
retrieve_DropsIndex(rp, query, top_k, query_outcome, chunks_outcome) ==
    LET r == retrieve_returns(rp, query, top_k, query_outcome, chunks_outcome)
    IN  [rp |-> [rp EXCEPT !.index = None], raised |-> r.raised, chunks |-> r.chunks]

\* retrieve assigns no attribute of the pipeline: it is left as it was
retrieve(rp, query, top_k, query_outcome, chunks_outcome) ==
    LET r == retrieve_returns(rp, query, top_k, query_outcome, chunks_outcome)
    IN  [rp |-> rp, raised |-> r.raised, chunks |-> r.chunks]

\* A file of vector_store/: absent, written in full, or cut short
WholeFile(data) == Some([whole |-> TRUE, data |-> data])
CutFile == Some([whole |-> FALSE, data |-> <<>>])

\* what a write leaves: the new content, the file as it was when the file
\* could not be opened, a cut file when the write failed after truncation
Written(file, data, outcome) ==
    IF outcome = "ok" THEN WholeFile(data)
    ELSE IF outcome = "not_opened" THEN file
    ELSE CutFile

WriteOutcomes == {"ok", "not_opened", "cut"}

\* RAGPipeline.__init__ before load_index
NewPipeline(user_id, sbert) == [user_id |-> user_id, index |-> None, text_chunks |-> <<>>, sbert |-> sbert]

\* load_index, first half: faiss.read_index; any exception empties the pipeline
ReadIndexFile(rp, file) ==
    IF file # None /\ file[1].whole
    THEN [ok |-> TRUE, rp |-> [rp EXCEPT !.index = Some(file[1].data)]]
    ELSE [ok |-> FALSE, rp |-> [rp EXCEPT !.index = None, !.text_chunks = <<>>]]

\* variant: a metadata file that cannot be read leaves the index loaded
ReadMetaFile_KeepsIndex(rp, file) ==
    IF file # None /\ file[1].whole
    THEN [rp EXCEPT !.text_chunks = file[1].data]
    ELSE rp

\* load_index, second half: json.load of the metadata file
ReadMetaFile(rp, file) ==
    IF file # None /\ file[1].whole
    THEN [rp EXCEPT !.text_chunks = file[1].data]
    ELSE [rp EXCEPT !.index = None, !.text_chunks = <<>>]

\* load_index as one call
load_index(rp, files) ==
    LET r == ReadIndexFile(rp, files.faiss)
    IN  IF r.ok THEN ReadMetaFile(r.rp, files.meta) ELSE r.rp

\* RAGPipeline.__init__: load_index only when the index file exists
RAGPipeline_init(user_id, sbert, files) ==
    IF files.faiss # None THEN load_index(NewPipeline(user_id, sbert), files)
    ELSE NewPipeline(user_id, sbert)

\* build_index up to the first write: "done" when it returned early
BuildInMemory(rp, pdf_text, outcome) ==
    IF ~rp.sbert THEN [done |-> TRUE, rp |-> rp]
    ELSE LET chunks == chunk_text(pdf_text, DefaultChunkSize, DefaultOverlap)
             embeddings == embed(rp.sbert, chunks, outcome)
         IN  IF embeddings = None \/ embeddings[1] = <<>>
             THEN [done |-> TRUE, rp |-> [rp EXCEPT !.text_chunks = chunks, !.index = None]]
             ELSE [done |-> FALSE, rp |-> [rp EXCEPT !.text_chunks = chunks, !.index = embeddings]]

\* ------------------------------------------------------------------------
\* Actions
\* ------------------------------------------------------------------------
NoTurn == [s |-> 0, kind |-> "none", field |-> "None", active |-> FALSE,
           calls |-> <<>>, reply |-> Say("none"), raised |-> FALSE, appended |-> <<>>]

\* The message sequence of the booking walk-through, and its observer: a is
\* the number of Script messages the session was fed in a row starting when
\* it was inactive, b the same starting when it had just been entered
\* (awaiting booking_type); sa and sb count the save_booking calls of the run.
\* A run ends when a store call fails or the time is refused as taken.
Script == <<MsgCleaning, MsgDate2999, MsgTime0900, MsgPhone10, MsgYes>>
NoScript == [a |-> 0, sa |-> 0, b |-> 0, sb |-> 0]

SaveCalls(calls) == Cardinality({i \in 1..Len(calls) : calls[i].fn = "save_booking"})

StoreClean(r) ==
    /\ ~r.raised
    /\ r.reply.kind # "slot_taken"
    /\ \A i \in 1..Len(r.calls) :
           r.calls[i].fn \in {"list_bookings", "save_booking"} => r.calls[i].result = "ok"

Follow(sc, bf, m, r) ==
    LET a2 == IF StoreClean(r) /\ sc.a \in 1..(Len(Script) - 1) /\ m = Script[sc.a + 1] THEN sc.a + 1
              ELSE IF StoreClean(r) /\ m = Script[1] /\ ~bf.active THEN 1
              ELSE 0
        b2 == IF StoreClean(r) /\ sc.b \in 1..(Len(Script) - 1) /\ m = Script[sc.b + 1] THEN sc.b + 1
              ELSE IF StoreClean(r) /\ m = Script[1] /\ bf.active /\ bf.awaiting_field = "booking_type" THEN 1
              ELSE 0
    IN  [a |-> a2, sa |-> IF a2 = 0 THEN 0 ELSE (IF a2 = 1 THEN 0 ELSE sc.sa) + SaveCalls(r.calls),
         b |-> b2, sb |-> IF b2 = 0 THEN 0 ELSE (IF b2 = 1 THEN 0 ELSE sc.sb) + SaveCalls(r.calls)]

\* the optional imports of app.py (RAGPipeline, ChatEngine) and of
\* rag_pipeline.py (SentenceTransformer), each None when its import failed
AllImported == [ChatEngine |-> TRUE, RAGPipeline |-> TRUE, SentenceTransformer |-> TRUE]

UserIds == {UserRows[r].id : r \in 1..Len(UserRows)}

\* vector_store/user_<id>.faiss and user_<id>_meta.json do not exist
NoFiles == [faiss |-> None, meta |-> None]

NoCalc == [fn |-> "none"]

\* no run of ingest_pdfs_for_rag in progress
NoIngest == [pc |-> "idle", rp |-> None, text |-> <<>>]

\* app.py at import: init_db() tries get_client(), init_session_state()
InitState(S, I, K) ==
    /\ configured \in BOOLEAN
    /\ client = get_client("None", configured).client
    /\ today = Today0
    /\ store = <<>>
    /\ user = [s \in S |-> None]
    /\ booking_flow = [s \in S |-> reset_booking_flow]
    /\ emails = 0
    /\ turn = NoTurn
    /\ script = [s \in S |-> NoScript]
    /\ imports \in I
    /\ rag_index = [s \in S |-> None]
    /\ disk = [u \in UserIds |-> NoFiles]
    /\ ingest = [s \in S |-> NoIngest]
    /\ calc \in K

\* the application as started, no function applied on its own
InitWith(S, I) == InitState(S, I, {NoCalc})

\* every optional import succeeded
InitSessions(S) == InitWith(S, {AllImported})

\* the collaborator outcomes that the turn on message m can consume: the
\* outcome of a call that is not made is left at "ok"
OutcomesFor(bf, m) ==
    {e \in Outcomes :
        /\ (bf.active /\ bf.awaiting_field = "time" /\ Lex[m].time # None) \/ e.list = "ok"
        /\ (bf.active /\ bf.awaiting_field = "confirm" /\ Lex[m].lower \in YesWords) \/ e.save = "ok"
        /\ (bf.active /\ bf.awaiting_field = "confirm" /\ Lex[m].lower \in YesWords /\ e.save = "ok")
              \/ e.mail = "ok"}

\* user_login_page: a successful sign-in
Login(s, r) ==
    /\ user[s] = None
    /\ ~get_client(client, configured).raised
    /\ client' = get_client(client, configured).client
    /\ user' = [user EXCEPT ![s] = Some(authenticate(UserRows[r]))]
    /\ booking_flow' = [booking_flow EXCEPT ![s] = reset_booking_flow]
    /\ turn' = [NoTurn EXCEPT !.s = s, !.kind = "login"]
    /\ script' = [script EXCEPT ![s] = NoScript]
    /\ UNCHANGED <<configured, today, store, emails, ragVars>>

\* user_login_page: authenticate() raises out of get_client()
LoginRaises(s) ==
    /\ user[s] = None
    /\ get_client(client, configured).raised
    /\ turn' = [NoTurn EXCEPT !.s = s, !.kind = "login", !.raised = TRUE]
    /\ UNCHANGED <<configured, client, today, store, user, booking_flow, emails, script, ragVars>>

\* main: the Logout button
Logout(s) ==
    /\ user[s] # None
    /\ ingest[s].pc = "idle"
    /\ user' = [user EXCEPT ![s] = None]
    /\ booking_flow' = [booking_flow EXCEPT ![s] = reset_booking_flow]
    /\ turn' = [NoTurn EXCEPT !.s = s, !.kind = "logout"]
    /\ script' = [script EXCEPT ![s] = NoScript]
    /\ UNCHANGED <<configured, client, today, store, emails, ragVars>>

\* variant: only a detected intent routes to the booking flow
Routed_IntentOnly(s, m) == Lex[m].intent

\* user_dashboard: what the chat message m of session s does
Routed(s, m) == booking_flow[s].active \/ Lex[m].intent

\* the else branch: retrieve() when the session holds a pipeline, then
\* ChatEngine.generate_answer(), which returns a string whatever happens;
\* a fixed reply when modules.chat_engine could not be imported
ChatAnswer(bf, rows, engine, rag_obj) ==
    IF engine
    THEN Result(bf, rows,
                (IF rag_obj # None THEN <<Call("retrieve", None, None, None, None, "ok")>> ELSE <<>>)
                    \o <<Call("generate_answer", None, None, None, None, "ok")>>,
                Say("answer"), FALSE)
    ELSE Result(bf, rows, <<>>, Say("engine_unavailable"), FALSE)

TurnResult(s, m, env) ==
    IF Routed(s, m)
    THEN run_booking_flow(booking_flow[s], m, user[s][1], client, configured, store, today, env)
    ELSE ChatAnswer(booking_flow[s], store, imports.ChatEngine, rag_index[s])

EmailCalls(calls) == Cardinality({i \in 1..Len(calls) : calls[i].fn = "send_booking_email"})

UserTurn(s, m, env) ==
    /\ user[s] # None
    /\ ingest[s].pc = "idle"
    /\ LET r == TurnResult(s, m, env)
       IN  /\ Len(r.rows) <= MaxBookings
           /\ booking_flow' = [booking_flow EXCEPT ![s] = r.bf]
           /\ store' = r.rows
           /\ emails' = emails + EmailCalls(r.calls)
           /\ client' = IF r.calls # <<>> THEN get_client(client, configured).client ELSE client
           /\ turn' = [s |-> s, kind |-> IF Routed(s, m) THEN "booking" ELSE "chat",
                       field |-> booking_flow[s].awaiting_field, active |-> booking_flow[s].active,
                       calls |-> r.calls, reply |-> r.reply, raised |-> r.raised,
                       appended |-> IF r.raised THEN <<"user">> ELSE <<"user", "assistant">>]
           /\ script' = [script EXCEPT ![s] = Follow(script[s], booking_flow[s], m, r)]
    /\ UNCHANGED <<configured, today, user, ragVars>>

\* admin_dashboard: update_booking_status
AdminStatuses == {"Cancelled", "Confirmed"}

AdminUpdateStatus(i, status) ==
    /\ i \in 1..Len(store)
    /\ ~get_client(client, configured).raised
    /\ store[i].status # status
    /\ store' = [store EXCEPT ![i].status = status]
    /\ turn' = [NoTurn EXCEPT !.kind = "admin"]
    /\ UNCHANGED <<configured, client, today, user, booking_flow, emails, script, ragVars>>

\* The texts extract_pdf_text returns for the uploaded PDFs, joined
DocFloss == <<"f", "l", "o", "s", "s", " ", "d", "a", "i", "l", "y">>
DocBrush == <<"b", "r", "u", "s", "h", " ", "a", "t", " ", "n", "i", "g", "h", "t">>
DocBlank == <<>>
Docs == {DocFloss, DocBrush, DocBlank}

IngestTurn(s, reply) == [NoTurn EXCEPT !.s = s, !.kind = "ingest", !.reply = Say(reply)]

\* ingest_pdfs_for_rag up to the constructor of RAGPipeline: no text, no
\* pipeline class, or a new pipeline that loads the persisted index if the
\* index file exists
IngestStart(s, text, sbertLoads) ==
    /\ user[s] # None
    /\ ingest[s].pc = "idle"
    /\ IF Strip(text) = <<>>
       THEN /\ turn' = IngestTurn(s, "no_readable_text")
            /\ UNCHANGED ingest
       ELSE IF ~imports.RAGPipeline
       THEN /\ turn' = IngestTurn(s, "rag_unavailable")
            /\ UNCHANGED ingest
       ELSE /\ turn' = IngestTurn(s, "none")
            /\ ingest' = [ingest EXCEPT ![s] =
                   [pc |-> IF disk[user[s][1].id].faiss # None THEN "load_index" ELSE "build",
                    rp |-> Some(NewPipeline(user[s][1].id, imports.SentenceTransformer /\ sbertLoads)),
                    text |-> text]]
    /\ UNCHANGED <<configured, client, today, store, user, booking_flow, emails, script,
                   imports, rag_index, disk, calc>>

\* load_index: faiss.read_index
IngestLoadIndex(s) ==
    /\ ingest[s].pc = "load_index"
    /\ LET r == ReadIndexFile(ingest[s].rp[1], disk[ingest[s].rp[1].user_id].faiss)
       IN  ingest' = [ingest EXCEPT ![s].rp = Some(r.rp), ![s].pc = IF r.ok THEN "load_meta" ELSE "build"]
    /\ turn' = IngestTurn(s, "none")
    /\ UNCHANGED <<configured, client, today, store, user, booking_flow, emails, script,
                   imports, rag_index, disk, calc>>

\* load_index: json.load of the metadata
IngestLoadMeta(s) ==
    /\ ingest[s].pc = "load_meta"
    /\ ingest' = [ingest EXCEPT ![s].rp = Some(ReadMetaFile(ingest[s].rp[1], disk[ingest[s].rp[1].user_id].meta)),
                                ![s].pc = "build"]
    /\ turn' = IngestTurn(s, "none")
    /\ UNCHANGED <<configured, client, today, store, user, booking_flow, emails, script,
                   imports, rag_index, disk, calc>>

\* build_index up to the first write
IngestBuild(s, outcome) ==
    /\ ingest[s].pc = "build"
    /\ LET b == BuildInMemory(ingest[s].rp[1], ingest[s].text, outcome)
       IN  ingest' = [ingest EXCEPT ![s].rp = Some(b.rp), ![s].pc = IF b.done THEN "finish" ELSE "write_index"]
    /\ turn' = IngestTurn(s, "none")
    /\ UNCHANGED <<configured, client, today, store, user, booking_flow, emails, script,
                   imports, rag_index, disk, calc>>

\* build_index: faiss.write_index, any exception passed over
IngestWriteIndex(s, outcome) ==
    /\ ingest[s].pc = "write_index"
    /\ LET rp == ingest[s].rp[1]
       IN  disk' = [disk EXCEPT ![rp.user_id].faiss = Written(@, rp.index[1], outcome)]
    /\ ingest' = [ingest EXCEPT ![s].pc = "write_meta"]
    /\ turn' = IngestTurn(s, "none")
    /\ UNCHANGED <<configured, client, today, store, user, booking_flow, emails, script,
                   imports, rag_index, calc>>

\* build_index: json.dump of the chunks, any exception passed over
IngestWriteMeta(s, outcome) ==
    /\ ingest[s].pc = "write_meta"
    /\ LET rp == ingest[s].rp[1]
       IN  disk' = [disk EXCEPT ![rp.user_id].meta = Written(@, rp.text_chunks, outcome)]
    /\ ingest' = [ingest EXCEPT ![s].pc = "finish"]
    /\ turn' = IngestTurn(s, "none")
    /\ UNCHANGED <<configured, client, today, store, user, booking_flow, emails, script,
                   imports, rag_index, calc>>

\* ingest_pdfs_for_rag after build_index returned: the pipeline is kept in
\* the session and st.success reports the index as built
IngestFinish(s) ==
    /\ ingest[s].pc = "finish"
    /\ rag_index' = [rag_index EXCEPT ![s] = ingest[s].rp]
    /\ ingest' = [ingest EXCEPT ![s] = NoIngest]
    /\ turn' = IngestTurn(s, "index_built")
    /\ UNCHANGED <<configured, client, today, store, user, booking_flow, emails, script,
                   imports, disk, calc>>

\* one run of ingest_pdfs_for_rag in session s, step by step, on one of the
\* texts, the model loading or not as `loads` allows
Ingest(s, texts, loads) ==
    \/ \E text \in texts, sbertLoads \in loads : IngestStart(s, text, sbertLoads)
    \/ IngestLoadIndex(s)
    \/ IngestLoadMeta(s)
    \/ \E outcome \in {"ok", "error"} : IngestBuild(s, outcome)
    \/ \E outcome \in WriteOutcomes : IngestWriteIndex(s, outcome)
    \/ \E outcome \in WriteOutcomes : IngestWriteMeta(s, outcome)
    \/ IngestFinish(s)

\* the calendar date advances
Tick ==
    /\ today # DayAfter(MaxTicks)
    /\ today' = NextDay(today)
    /\ turn' = [NoTurn EXCEPT !.kind = "tick"]
    /\ UNCHANGED <<configured, client, store, user, booking_flow, emails, script, ragVars>>

\* One browser session, every message
Init == InitSessions({1})

Next ==
    \/ \E r \in 1..Len(UserRows) : Login(1, r)
    \/ LoginRaises(1)
    \/ Logout(1)
    \/ \E m \in Messages : \E env \in OutcomesFor(booking_flow[1], m) : UserTurn(1, m, env)
    \/ \E i \in 1..MaxBookings, status \in AdminStatuses : AdminUpdateStatus(i, status)

Spec == Init /\ [][Next]_vars

\* One browser session left open while the calendar date advances
ClockMessages == {MsgBook, MsgCleaning, MsgDateNewYearsEve, MsgDate2000, MsgTime0900, MsgPhone10, MsgYes}

NextClock ==
    \/ \E r \in 1..Len(UserRows) : Login(1, r)
    \/ LoginRaises(1)
    \/ \E m \in ClockMessages : \E env \in OutcomesFor(booking_flow[1], m) : UserTurn(1, m, env)
    \/ Tick

SpecClock == Init /\ [][NextClock]_vars

\* One browser session answering the summary in upper, mixed and padded case
ConfirmMessages == {MsgBook, MsgDate2999, MsgTime0900, MsgPhone10, MsgYesUpper, MsgYUpper,
                    MsgConfirmCap, MsgYesPadded, MsgNo, MsgNUpper, MsgCancelUpper, MsgMaybe, MsgStop}

NextConfirm ==
    \/ \E r \in 1..Len(UserRows) : Login(1, r)
    \/ LoginRaises(1)
    \/ \E m \in ConfirmMessages : \E env \in OutcomesFor(booking_flow[1], m) : UserTurn(1, m, env)

SpecConfirm == Init /\ [][NextConfirm]_vars

\* One browser session answering the phone question with formatted numbers
PhoneMessages == {MsgBook, MsgDate2999, MsgTime0900, MsgPhoneFormatted, MsgPhone7, MsgPhone6,
                  MsgPhoneInWords, MsgYes}

NextPhone ==
    \/ \E r \in 1..Len(UserRows) : Login(1, r)
    \/ LoginRaises(1)
    \/ \E m \in PhoneMessages : \E env \in OutcomesFor(booking_flow[1], m) : UserTurn(1, m, env)

SpecPhone == Init /\ [][NextPhone]_vars

\* chunk_text applied on its own to texts of up to MaxTokens tokens, with
\* single and mixed whitespace between them
MaxTokens == 4
MaxChunkSize == 4
Tokens == {<<"a">>, <<"b", "b">>, <<"c">>}
Separators == {<<" ">>, <<" ", "\n">>}

RECURSIVE JoinBy(_, _)
JoinBy(words, sep) ==
    IF words = <<>> THEN <<>>
    ELSE IF Len(words) = 1 THEN words[1]
    ELSE words[1] \o sep \o JoinBy(Tail(words), sep)

TokenSequences == UNION {[1..n -> Tokens] : n \in 0..MaxTokens}

ChunkTextCalls ==
    {[fn |-> "chunk_text", text |-> JoinBy(words, sep), chunk_size |-> c, overlap |-> o, result |-> None] :
        words \in TokenSequences, sep \in Separators, c \in 1..MaxChunkSize, o \in 0..MaxChunkSize}

InitChunkText == InitState({1}, {AllImported}, ChunkTextCalls) /\ configured

ApplyChunkText ==
    /\ calc.fn = "chunk_text"
    /\ calc.result = None
    /\ calc' = [calc EXCEPT !.result = Some(chunk_text(calc.text, calc.chunk_size, calc.overlap))]
    /\ UNCHANGED <<configured, client, today, store, user, booking_flow, emails, turn, script,
                   imports, rag_index, disk, ingest>>

NextChunkText == ApplyChunkText

SpecChunkText == InitChunkText /\ [][NextChunkText]_vars

\* The while loop of chunk_text run one iteration at a time over the same
\* calls, overlap >= chunk_size among them
ChunkLoopCalls ==
    {[fn |-> "chunk_loop", text |-> c.text, words |-> split(c.text), chunk_size |-> c.chunk_size,
      overlap |-> c.overlap, start |-> 0, chunks |-> <<>>, returned |-> FALSE] : c \in ChunkTextCalls}

InitChunkLoop == InitState({1}, {AllImported}, ChunkLoopCalls) /\ configured

\* variant: the next start is end - overlap, not clamped
ChunkLoopStep_Unclamped ==
    /\ calc.fn = "chunk_loop"
    /\ ~calc.returned
    /\ calc.start < Len(calc.words)
    /\ LET end == calc.start + calc.chunk_size
       IN  calc' = [calc EXCEPT !.chunks = Append(@, join(Slice(calc.words, calc.start, end))),
                                !.start = end - calc.overlap]
    /\ UNCHANGED <<configured, client, today, store, user, booking_flow, emails, turn, script,
                   imports, rag_index, disk, ingest>>

\* one iteration: while start < len(words)
ChunkLoopStep ==
    /\ calc.fn = "chunk_loop"
    /\ ~calc.returned
    /\ calc.start < Len(calc.words)
    /\ LET end == calc.start + calc.chunk_size
       IN  calc' = [calc EXCEPT !.chunks = Append(@, join(Slice(calc.words, calc.start, end))),
                                !.start = Max(end - calc.overlap, calc.start + 1)]
    /\ UNCHANGED <<configured, client, today, store, user, booking_flow, emails, turn, script,
                   imports, rag_index, disk, ingest>>

\* the loop condition is false: return chunks
ChunkLoopReturn ==
    /\ calc.fn = "chunk_loop"
    /\ ~calc.returned
    /\ calc.start >= Len(calc.words)
    /\ calc' = [calc EXCEPT !.returned = TRUE]
    /\ UNCHANGED <<configured, client, today, store, user, booking_flow, emails, turn, script,
                   imports, rag_index, disk, ingest>>

NextChunkLoop == ChunkLoopStep \/ ChunkLoopReturn

SpecChunkLoop == InitChunkLoop /\ [][NextChunkLoop]_vars

\* maximal_marginal_relevance applied on its own to up to MaxCandidates
\* candidate vectors and top_k up to MaxTopK
MaxCandidates == 3
MaxTopK == 4
Vectors == 0..(Directions - 1)

MMRCalls ==
    {[fn |-> "maximal_marginal_relevance", query_embedding |-> q, chunk_embeddings |-> e, top_k |-> k,
      result |-> None] :
        q \in Vectors, e \in UNION {[1..n -> Vectors] : n \in 0..MaxCandidates}, k \in 0..MaxTopK}

InitMMR == InitState({1}, {AllImported}, MMRCalls) /\ configured

ApplyMMR ==
    /\ calc.fn = "maximal_marginal_relevance"
    /\ calc.result = None
    /\ calc' = [calc EXCEPT !.result =
                   Some(maximal_marginal_relevance(calc.query_embedding, calc.chunk_embeddings, calc.top_k))]
    /\ UNCHANGED <<configured, client, today, store, user, booking_flow, emails, turn, script,
                   imports, rag_index, disk, ingest>>

NextMMR == ApplyMMR

SpecMMR == InitMMR /\ [][NextMMR]_vars

\* retrieve applied up to MaxCalls times to pipelines of up to MaxChunks chunks: new, built, left
\* by a build whose embedding failed, and loaded from a vector file with
\* one vector more than the metadata has chunks
MaxChunks == 5
MaxCalls == 2
ChunkTexts == {<<"f", "l", "o", "s", "s">>, <<"r", "i", "n", "s", "e", " ", "w", "e", "l", "l">>, <<"b", "r", "u", "s", "h", " ", "a", "t", " ", "n", "i", "g", "h", "t">>}
Queries == {<<"b", "r", "u", "s", "h", "?">>, <<"w", "h", "y", " ", "f", "l", "o", "s", "s">>}
EmbedOutcomes == {"ok", "error"}

ChunkLists == UNION {[1..n -> ChunkTexts] : n \in 0..MaxChunks}

Pipelines ==
    {NewPipeline(1, sbert) : sbert \in BOOLEAN}
      \cup {[NewPipeline(1, sbert) EXCEPT !.text_chunks = chunks, !.index = embed(TRUE, chunks, "ok")] :
                sbert \in BOOLEAN, chunks \in ChunkLists \ {<<>>}}
      \cup {[NewPipeline(1, TRUE) EXCEPT !.text_chunks = chunks] : chunks \in ChunkLists \ {<<>>}}
      \cup {[NewPipeline(1, TRUE) EXCEPT !.text_chunks = SubSeq(chunks, 1, Len(chunks) - 1),
                                         !.index = embed(TRUE, chunks, "ok")] :
                chunks \in {c \in ChunkLists : Len(c) >= 2 /\ Len(c) <= 3}}

RetrieveCalls ==
    {[fn |-> "retrieve", rp |-> rp, query |-> q, top_k |-> k,
      query_outcome |-> "ok", chunks_outcome |-> "ok", result |-> None, calls |-> 0] :
        rp \in Pipelines, q \in Queries, k \in 1..2}

InitRetrieve == InitState({1}, {AllImported}, RetrieveCalls) /\ configured

\* one call of retrieve on the pipeline, with the same query and top_k as
\* any call before it
ApplyRetrieve(query_outcome, chunks_outcome) ==
    /\ calc.fn = "retrieve"
    /\ calc.calls < MaxCalls
    /\ LET r == retrieve(calc.rp, calc.query, calc.top_k, query_outcome, chunks_outcome)
       IN  calc' = [calc EXCEPT !.rp = r.rp, !.query_outcome = query_outcome, !.chunks_outcome = chunks_outcome,
                                !.result = Some([raised |-> r.raised, chunks |-> r.chunks]),
                                !.calls = @ + 1]
    /\ UNCHANGED <<configured, client, today, store, user, booking_flow, emails, turn, script,
                   imports, rag_index, disk, ingest>>

NextRetrieve == \E query_outcome \in EmbedOutcomes, chunks_outcome \in EmbedOutcomes :
                    ApplyRetrieve(query_outcome, chunks_outcome)

SpecRetrieve == InitRetrieve /\ [][NextRetrieve]_vars

\* One browser session that chats, books and uploads, with any of the
\* optional imports missing
ChatMessages == {MsgBook, MsgQuestion, MsgDate2999}

InitChat == InitWith({1}, [ChatEngine : BOOLEAN, RAGPipeline : BOOLEAN, SentenceTransformer : BOOLEAN])

NextChat ==
    \/ Login(1, 1)
    \/ LoginRaises(1)
    \/ Logout(1)
    \/ \E m \in ChatMessages : \E env \in OutcomesFor(booking_flow[1], m) : UserTurn(1, m, env)
    \/ Ingest(1, Docs, BOOLEAN)

SpecChat == InitChat /\ [][NextChat]_vars

\* Two browser sessions, user s in session s, taking turns in any order
RaceMessages == {MsgBook, MsgCleaning, MsgDate2999, MsgTime0900, MsgPhone10, MsgYes}

\* in the race the store and the mail server answer every call
RaceOutcomes == {e \in Outcomes : e.list = "ok" /\ e.save = "ok" /\ e.mail = "ok"}

InitRace == InitSessions({1, 2})

NextRace ==
    \/ \E s \in {1, 2} : Login(s, s)
    \/ \E s \in {1, 2} : LoginRaises(s)
    \/ \E s \in {1, 2}, m \in RaceMessages, env \in RaceOutcomes : UserTurn(s, m, env)
    \/ \E i \in 1..MaxBookings : AdminUpdateStatus(i, "Cancelled")

SpecRace == InitRace /\ [][NextRace]_vars

\* Two browser sessions of the same user uploading PDFs: each run of
\* ingest_pdfs_for_rag loads and rebuilds the files of that user
InitUploads == InitState({1, 2}, {AllImported}, {NoCalc}) /\ configured

NextUploads ==
    \/ \E s \in {1, 2} : Login(s, 1)
    \/ \E s \in {1, 2} : Ingest(s, {DocFloss, DocBrush}, {TRUE})

SpecUploads == InitUploads /\ [][NextUploads]_vars

\* A pipeline constructed over any state of the two files of a user, absent,
\* cut short or whole, then asked to retrieve
StoredLists == {c \in ChunkLists : Len(c) >= 1 /\ Len(c) <= 2}

FileStates(contents) == {None, CutFile} \cup {WholeFile(data) : data \in contents}

LoadCalls ==
    {[fn |-> "load_index", files |-> [faiss |-> f, meta |-> g], sbert |-> b, query |-> q] :
        f \in FileStates({embed(TRUE, c, "ok")[1] : c \in StoredLists}),
        g \in FileStates(StoredLists), b \in BOOLEAN, q \in Queries}

InitLoad == InitState({1}, {AllImported}, LoadCalls) /\ configured

ApplyConstruct ==
    /\ calc.fn = "load_index"
    /\ calc' = [fn |-> "retrieve", files |-> calc.files,
                rp |-> RAGPipeline_init(1, calc.sbert, calc.files),
                query |-> calc.query, top_k |-> 1,
                query_outcome |-> "ok", chunks_outcome |-> "ok", result |-> None, calls |-> 0]
    /\ UNCHANGED <<configured, client, today, store, user, booking_flow, emails, turn, script,
                   imports, rag_index, disk, ingest>>

NextLoad ==
    \/ ApplyConstruct
    \/ \E query_outcome \in EmbedOutcomes, chunks_outcome \in EmbedOutcomes :
           ApplyRetrieve(query_outcome, chunks_outcome)

SpecLoad == InitLoad /\ [][NextLoad]_vars

\* modules/booking_flow.py: the dialogue kept beside run_booking_flow
\* init_flow(user)
init_flow(u) ==
    [step |-> "phone", name |-> u.name, email |-> u.email,
     phone |-> None, date |-> None, time |-> None, reason |-> None]

\* parse_date: strptime(d, "%Y-%m-%d").date(); None stands for the error text
parse_date(d) == strptime_date(d, DateFormats[1])

\* parse_time: strptime(t, "%H:%M").time(), kept as its strftime("%H:%M")
parse_time(tm) == strptime_time(tm, FALSE)

LegacyReturn(returned, reply, flow, rows, saves, mails) ==
    [returned |-> returned, reply |-> reply, flow |-> flow, rows |-> rows, saves |-> saves, mails |-> mails]

\* handle_booking_msg(msg, flow, user): returned is "pair" for a
\* (reply, flow) tuple, "None" when the function ends without a return
\* statement, "raised" when save_booking, called outside any try, raises;
\* an exception of send_booking_email is caught
handle_booking_msg(msg, flow, u, c, cfg, rows, env) ==
    LET lower == Lower(msg)
    IN  IF lower \in {MsgCancel, MsgStop, MsgExit}
        THEN LegacyReturn("pair", "cancelled", None, rows, 0, 0)
        ELSE IF flow.step = "phone"
        THEN LegacyReturn("pair", "ask_date", Some([flow EXCEPT !.phone = Some(msg), !.step = "date"]), rows, 0, 0)
        ELSE IF flow.step = "date"
        THEN IF parse_date(msg) = None
             THEN LegacyReturn("pair", "date_format", Some(flow), rows, 0, 0)
             ELSE LegacyReturn("pair", "ask_time", Some([flow EXCEPT !.date = parse_date(msg), !.step = "time"]), rows, 0, 0)
        ELSE IF flow.step = "time"
        THEN IF parse_time(msg) = None
             THEN LegacyReturn("pair", "time_format", Some(flow), rows, 0, 0)
             ELSE LegacyReturn("pair", "ask_reason", Some([flow EXCEPT !.time = parse_time(msg), !.step = "reason"]), rows, 0, 0)
        ELSE IF flow.step = "reason"
        THEN LegacyReturn("pair", "summary", Some([flow EXCEPT !.reason = Some(msg), !.step = "confirm"]), rows, 0, 0)
        ELSE IF flow.step = "confirm" /\ lower = MsgConfirm
        THEN LET sv == save_booking(c, cfg, rows, u.id, flow.date[1], flow.time[1], None, env.save)
             IN  IF sv.raised THEN LegacyReturn("raised", "none", Some(flow), sv.rows, 1, 0)
                 ELSE LegacyReturn("pair", "booked", None, sv.rows, 1, 1)
        ELSE LegacyReturn("None", "none", Some(flow), rows, 0, 0)

LegacyMessages == {MsgPhone10, MsgDate2999, MsgDate2000, MsgTime0900, MsgTime2500, MsgCleaning,
                   MsgConfirm, MsgConfirmCap, MsgYes, MsgCancel, MsgCancelUpper}

NoLegacyCall == [fn |-> "handle_booking_msg", u |-> UserRows[1], flow |-> None,
                 msg |-> <<>>, returned |-> "start", reply |-> "none", saves |-> 0]

InitLegacy == InitState({1}, {AllImported}, {NoLegacyCall})

\* a caller starts a dialogue: flow = init_flow(user)
StartLegacy ==
    /\ calc.fn = "handle_booking_msg"
    /\ calc.flow = None
    /\ Len(store) < MaxBookings
    /\ emails < MaxBookings
    /\ calc' = [NoLegacyCall EXCEPT !.flow = Some(init_flow(calc.u))]
    /\ UNCHANGED <<configured, client, today, store, user, booking_flow, emails, turn, script,
                   imports, rag_index, disk, ingest>>

\* one call handle_booking_msg(msg, flow, user); the caller keeps the flow of
\* a returned pair, and a call that returned no pair or raised ends the
\* dialogue as it stands
LegacyTurn(msg, env) ==
    /\ calc.fn = "handle_booking_msg"
    /\ calc.flow # None
    /\ calc.returned \in {"start", "pair"}
    /\ LET r == handle_booking_msg(msg, calc.flow[1], calc.u, client, configured, store, env)
       IN  /\ calc' = [calc EXCEPT !.flow = r.flow, !.msg = msg, !.returned = r.returned,
                                    !.reply = r.reply, !.saves = r.saves]
           /\ store' = r.rows
           /\ emails' = emails + r.mails
           /\ client' = IF r.saves > 0 THEN get_client(client, configured).client ELSE client
    /\ UNCHANGED <<configured, today, user, booking_flow, turn, script,
                   imports, rag_index, disk, ingest>>

NextLegacy ==
    \/ StartLegacy
    \/ \E msg \in LegacyMessages, env \in {e \in Outcomes : e.list = "ok" /\ e.mail = "ok"} : LegacyTurn(msg, env)

SpecLegacy == InitLegacy /\ [][NextLegacy]_vars

\* ------------------------------------------------------------------------
\* Properties
\* ------------------------------------------------------------------------
SessionIds == DOMAIN user

\* the two texts the walk-through books
Date2999 == <<2999, 1, 1>>
Time0900 == <<"0", "9", ":", "0", "0">>

\* the users row of the signed-in user of session s has a phone number
PhoneOnFile(s) ==
    /\ user[s] # None
    /\ \E r \in 1..Len(UserRows) : UserRows[r].id = user[s][1].id /\ UserRows[r].phone # None

CancelKeywords == {MsgCancel, MsgStop, MsgExit}

\* C1: a message equal to a cancel keyword ("cancel", "stop", "exit")
\* received in any active state resets the session (every slot null,
\* awaiting_field none, active false) and makes no commit or notification
\* call.
C1_CancelKeywordResets ==
    [][\A s \in SessionIds, m \in CancelKeywords, env \in Outcomes :
          (booking_flow[s].active /\ UserTurn(s, m, env))
              => (booking_flow'[s] = reset_booking_flow /\ turn'.calls = <<>>)]_vars

\* C2 as stated: from an inactive session of a user with a phone on file,
\* the five messages of Script fed through the chat routing end with exactly
\* one save_booking call.
C2_ScriptFromInactiveCommitsOnce ==
    \A s \in SessionIds : (PhoneOnFile(s) /\ script[s].a = Len(Script)) => script[s].sa = 1

\* C2 amended: from a session that has just been entered (awaiting
\* booking_type) of a user with a phone on file, with no conflicting booking
\* and a succeeding store, the five messages of Script make exactly one
\* save_booking call, with booking_type "Cleaning", date 2999-01-01 and time
\* "09:00"; the booking is stored and the session is reset.
C2_ScriptFromEnteredCommitsOnce ==
    \A s \in SessionIds :
        (PhoneOnFile(s) /\ script[s].b = Len(Script)) =>
            /\ script[s].sb = 1
            /\ booking_flow[s] = reset_booking_flow
            /\ (turn.s = s /\ turn.kind = "booking") =>
                   /\ SaveCalls(turn.calls) = 1
                   /\ turn.calls[1].fn = "save_booking"
                   /\ turn.calls[1].booking_type = Some(MsgCleaning)
                   /\ turn.calls[1].date = Some(Date2999)
                   /\ turn.calls[1].time = Some(Time0900)
                   /\ turn.calls[1].id = Some(Len(store))
                   /\ store[Len(store)].appt_date = MsgDate2999
                   /\ store[Len(store)].appt_time = Time0900

C2_Witness ==
    \E s \in SessionIds :
        /\ PhoneOnFile(s)
        /\ script[s].b = Len(Script)
        /\ turn.s = s
        /\ turn.kind = "booking"
        /\ turn.reply.kind = "confirmed"

\* this step is the chat turn of session s on message m
TurnBy(s, m) == \E env \in OutcomesFor(booking_flow[s], m) : UserTurn(s, m, env)

Confirming(s) == booking_flow[s].active /\ booking_flow[s].awaiting_field = "confirm"

\* C3: each affirmative answer accepted in Confirming makes exactly one
\* save_booking call with the collected date, time and booking_type; when it
\* returns an id exactly one send_booking_email call follows with the same
\* data and that id and the session is reset; notification calls and
\* successful commits stay equal in number; no commit call is made outside
\* Confirming.
C3_CommitAndNotifyOnce ==
    [][/\ \A s \in SessionIds, m \in AllMessages :
             (Confirming(s) /\ Lex[m].lower \in YesWords /\ TurnBy(s, m)) =>
                 LET c == turn'.calls
                     slots == booking_flow[s].slots
                 IN  /\ SaveCalls(c) = 1
                     /\ c[1].fn = "save_booking"
                     /\ c[1].date = slots.date /\ c[1].time = slots.time
                     /\ c[1].booking_type = slots.booking_type
                     /\ c[1].id = None => Len(c) = 1
                     /\ c[1].id # None =>
                            /\ Len(c) = 2
                            /\ c[2].fn = "send_booking_email"
                            /\ c[2].date = slots.date /\ c[2].time = slots.time
                            /\ c[2].booking_type = slots.booking_type
                            /\ c[2].id = c[1].id
                            /\ booking_flow'[s] = reset_booking_flow
       /\ emails' = Len(store')
       /\ SaveCalls(turn'.calls) > 0 =>
              (turn'.kind = "booking" /\ turn'.active /\ turn'.field = "confirm")]_vars

C3_Witness ==
    /\ turn.kind = "booking"
    /\ turn.field = "confirm"
    /\ Len(turn.calls) = 2
    /\ turn.calls[2].fn = "send_booking_email"
    /\ emails = Len(store)
    /\ emails > 0

\* C4: when the commit fails after an affirmative answer in Confirming
\* (save_booking returns no id or raises), no notification call is made, the
\* reply is a failure message, the session is reset with every slot and
\* booking_id null, the call is not repeated and nothing is stored.
C4_FailedCommitAbandons ==
    [][\A s \in SessionIds, m \in AllMessages :
          (/\ Confirming(s)
           /\ Lex[m].lower \in YesWords
           /\ TurnBy(s, m)
           /\ \E i \in 1..Len(turn'.calls) :
                  turn'.calls[i].fn = "save_booking" /\ turn'.calls[i].id = None)
          => /\ EmailCalls(turn'.calls) = 0
             /\ SaveCalls(turn'.calls) = 1
             /\ turn'.reply.kind \in {"save_failed", "booking_error"}
             /\ turn'.reply.id = None
             /\ booking_flow'[s] = reset_booking_flow
             /\ store' = store
             /\ emails' = emails]_vars

C4_Witness ==
    /\ turn.kind = "booking"
    /\ turn.field = "confirm"
    /\ turn.reply.kind = "save_failed"
    /\ turn.s \in SessionIds
    /\ booking_flow[turn.s] = reset_booking_flow

\* C5: in every state of an active session, awaiting_field is the first of
\* booking_type, date, time, phone that is still null, except in the confirm
\* step, where booking_type, date, time, phone, name and email are non-null.
FillingOrder == <<"booking_type", "date", "time", "phone">>

SlotOf(slots, f) == IF f = "booking_type" THEN slots.booking_type
                    ELSE IF f = "date" THEN slots.date
                    ELSE IF f = "time" THEN slots.time
                    ELSE slots.phone

C5_AwaitingIsFirstNullSlot ==
    \A s \in SessionIds :
        booking_flow[s].active =>
            LET slots == booking_flow[s].slots
                f == booking_flow[s].awaiting_field
            IN  IF f = "confirm"
                THEN /\ \A k \in 1..Len(FillingOrder) : SlotOf(slots, FillingOrder[k]) # None
                     /\ slots.name # None /\ slots.email # None
                ELSE \E k \in 1..Len(FillingOrder) :
                        /\ f = FillingOrder[k]
                        /\ SlotOf(slots, f) = None
                        /\ \A j \in 1..(k - 1) : SlotOf(slots, FillingOrder[j]) # None

C5_Witness ==
    \E s \in SessionIds :
        /\ booking_flow[s].active
        /\ booking_flow[s].awaiting_field = "phone"
        /\ booking_flow[s].slots.time # None

\* C6: a message that fails validation (date unparseable or earlier than
\* today in CollectingDate, time unparseable in CollectingTime, fewer than 7
\* digits in CollectingPhone) leaves the whole session unchanged and makes no
\* commit or notification call; "2000-01-01" leaves the machine in
\* CollectingDate.
FailsValidation(field, m) ==
    \/ field = "date" /\ (Lex[m].date = None \/ DateLess(Lex[m].date[1], today))
    \/ field = "time" /\ Lex[m].time = None
    \/ field = "phone" /\ Len(Lex[m].digits) < 7

C6_InvalidInputChangesNothing ==
    [][\A s \in SessionIds :
          /\ (/\ booking_flow[s].active
              /\ \E m \in AllMessages :
                     FailsValidation(booking_flow[s].awaiting_field, m) /\ TurnBy(s, m))
             => /\ booking_flow'[s] = booking_flow[s]
                /\ turn'.calls = <<>>
                /\ store' = store
                /\ emails' = emails
          /\ (/\ booking_flow[s].active
              /\ booking_flow[s].awaiting_field = "date"
              /\ TurnBy(s, MsgDate2000))
             => /\ booking_flow'[s].active
                /\ booking_flow'[s].awaiting_field = "date"
                /\ booking_flow'[s].slots.date = None]_vars

C6_Witness ==
    /\ turn.kind = "booking"
    /\ turn.field = "date"
    /\ turn.reply.kind = "date_past"
    /\ turn.s \in SessionIds
    /\ booking_flow[turn.s].awaiting_field = "date"

\* C7: in CollectingTime a parseable time is rejected exactly when the
\* booking store holds a booking with the collected date, the entered time
\* and a status other than Cancelled; on rejection awaiting_field stays at
\* time, the time slot stays null and the reply names the time and the date.
StoreHolds(date, time) ==
    \E i \in 1..Len(store) :
        /\ store[i].appt_date = isoformat(date)
        /\ store[i].appt_time = time
        /\ store[i].status # "Cancelled"

C7_RejectedIffSlotTaken ==
    [][\A s \in SessionIds, m \in AllMessages :
          (/\ booking_flow[s].active
           /\ booking_flow[s].awaiting_field = "time"
           /\ Lex[m].time # None
           /\ TurnBy(s, m))
          => /\ StoreHolds(booking_flow[s].slots.date[1], Lex[m].time[1])
                    <=> (turn'.reply.kind = "slot_taken")
             /\ turn'.reply.kind = "slot_taken" =>
                    /\ booking_flow'[s] = booking_flow[s]
                    /\ turn'.reply.time = Lex[m].time
                    /\ turn'.reply.date = booking_flow[s].slots.date]_vars

\* C8: the commit does not look at the store again: an affirmative answer in
\* Confirming that reaches a succeeding store inserts the booking whatever
\* the store holds, so two sessions that both passed the conflict check for
\* one date and time both commit.
C8_CommitDoesNotRecheck ==
    [][\A s \in SessionIds :
          (/\ Confirming(s)
           /\ \E env \in Outcomes : env.save = "ok" /\ UserTurn(s, MsgYes, env))
          => /\ Len(store') = Len(store) + 1
             /\ SubSeq(store', 1, Len(store)) = store
             /\ store'[Len(store')].appt_date = isoformat(booking_flow[s].slots.date[1])
             /\ store'[Len(store')].appt_time = booking_flow[s].slots.time[1]
             /\ store'[Len(store')].status = "Pending"]_vars

\* the booking just confirmed shares its date and time with an earlier
\* booking that is not cancelled
C8_Witness ==
    \E i, j \in 1..Len(store) :
        /\ i < j
        /\ store[i].appt_date = store[j].appt_date
        /\ store[i].appt_time = store[j].appt_time
        /\ store[i].status # "Cancelled"
        /\ store[j].status # "Cancelled"
        /\ turn.kind = "booking"
        /\ turn.reply.kind = "confirmed"
        /\ turn.reply.id = Some(store[j].id)

\* C9: a failure of send_booking_email after save_booking returned an id is
\* never reported as a booking failure: the reply is the confirmation with
\* the booking id and the session is reset.
C9_EmailFailureNotSurfaced ==
    \A i \in 1..Len(turn.calls) :
        (turn.calls[i].fn = "send_booking_email" /\ turn.calls[i].result # "sent")
        => /\ turn.reply.kind = "confirmed"
           /\ turn.reply.id = turn.calls[i].id
           /\ booking_flow[turn.s] = reset_booking_flow

\* C10: every failure of list_bookings, save_booking or send_booking_email
\* during a booking turn is caught and turned into a reply or a log entry:
\* no exception escapes, and the session is afterwards unchanged or fully
\* reset, never partly updated.
CallFailed(c) == c.result \notin {"ok", "sent"}

C10_FailuresCaughtSessionIntact ==
    [][\A s \in SessionIds :
          (/\ turn'.kind = "booking"
           /\ turn'.s = s
           /\ \E i \in 1..Len(turn'.calls) : CallFailed(turn'.calls[i]))
          => /\ ~turn'.raised
             /\ booking_flow'[s] = booking_flow[s] \/ booking_flow'[s] = reset_booking_flow]_vars

\* C11: in Confirming the answers "yes", "y" and "confirm" in any letter case
\* trigger the commit; "no", "n" and "cancel" in any letter case reset the
\* session with no commit call; every other message re-prompts, leaves the
\* session in Confirming with all slots unchanged and makes no commit call.
\* The answer is the message without its surrounding whitespace.
AffirmativeAnswers == {<<"y", "e", "s">>, <<"y">>, <<"c", "o", "n", "f", "i", "r", "m">>}
NegativeAnswers == {<<"n", "o">>, <<"n">>, <<"c", "a", "n", "c", "e", "l">>}

\* txt spells the word w, each letter in either case
SpellsIgnoringCase(txt, w) ==
    /\ Len(txt) = Len(w)
    /\ \A i \in 1..Len(w) :
           \/ txt[i] = w[i]
           \/ \E k \in 1..26 : LowerCase[k] = w[i] /\ UpperCase[k] = txt[i]

AnswerIn(m, words) == \E w \in words : SpellsIgnoringCase(Strip(m), w)

C11_ConfirmAnswers ==
    [][\A s \in SessionIds :
          Confirming(s) =>
             /\ (\E m \in AllMessages : AnswerIn(m, AffirmativeAnswers) /\ TurnBy(s, m))
                    => /\ SaveCalls(turn'.calls) = 1
                       /\ turn'.reply.kind \in {"confirmed", "save_failed", "booking_error"}
             /\ (\E m \in AllMessages : AnswerIn(m, NegativeAnswers) /\ TurnBy(s, m))
                    => /\ booking_flow'[s] = reset_booking_flow
                       /\ turn'.calls = <<>>
                       /\ turn'.reply.kind = "cancelled"
                       /\ store' = store
             /\ (\E m \in AllMessages :
                     /\ ~AnswerIn(m, AffirmativeAnswers)
                     /\ ~AnswerIn(m, NegativeAnswers)
                     /\ TurnBy(s, m))
                    => /\ booking_flow'[s] = booking_flow[s]
                       /\ turn'.calls = <<>>
                       /\ turn'.reply.kind = "ask_yes_no"
                       /\ store' = store]_vars

\* a booking confirmed by an answer that is not in lower case
C11_Witness ==
    /\ turn.kind = "booking"
    /\ turn.field = "confirm"
    /\ turn.reply.kind = "confirmed"
    /\ SaveCalls(turn.calls) = 1
    /\ MsgYes \notin ConfirmMessages

\* C12: after a time is accepted in CollectingTime the machine goes directly
\* to Confirming exactly when a phone number is on file for the user, with
\* that phone in the phone slot, and to CollectingPhone otherwise.
C12_PhoneStepSkippedIffOnFile ==
    [][\A s \in SessionIds :
          (/\ booking_flow[s].active
           /\ booking_flow[s].awaiting_field = "time"
           /\ \E m \in AllMessages : Lex[m].time # None /\ TurnBy(s, m)
           /\ booking_flow'[s].slots.time # None)
          => IF PhoneOnFile(s)
             THEN /\ booking_flow'[s].awaiting_field = "confirm"
                  /\ \E r \in 1..Len(UserRows) :
                         /\ UserRows[r].id = user[s][1].id
                         /\ booking_flow'[s].slots.phone = UserRows[r].phone
             ELSE booking_flow'[s].awaiting_field = "phone"]_vars

\* C13: in CollectingPhone a message is accepted exactly when it contains at
\* least 7 digit characters; on acceptance the phone slot holds exactly the
\* digits of the message in their original order and the machine moves to
\* Confirming; otherwise the session stays as it is.
IsDecimalDigit(c) == c \in {"0", "1", "2", "3", "4", "5", "6", "7", "8", "9"}

DigitCharacters(m) == SelectSeq(m, IsDecimalDigit)

C13_PhoneAcceptedIffSevenDigits ==
    [][\A s \in SessionIds, m \in AllMessages :
          (/\ booking_flow[s].active
           /\ booking_flow[s].awaiting_field = "phone"
           /\ TurnBy(s, m))
          => IF Len(DigitCharacters(m)) >= 7
             THEN /\ booking_flow'[s].slots.phone = Some(DigitCharacters(m))
                  /\ booking_flow'[s].awaiting_field = "confirm"
                  /\ booking_flow'[s].active
                  /\ turn'.reply.kind = "summary"
             ELSE /\ booking_flow'[s] = booking_flow[s]
                  /\ turn'.reply.kind = "phone_invalid"]_vars

\* the punctuation of a formatted number was dropped on the way to Confirming
C13_Witness ==
    \E s \in SessionIds :
        /\ booking_flow[s].active
        /\ booking_flow[s].awaiting_field = "confirm"
        /\ booking_flow[s].slots.phone = Some(<<"1", "5", "5", "5", "1", "2", "3", "4", "5", "6", "7">>)

\* C14: each message is handled by exactly one path: run_booking_flow when
\* the booking session is active or the message shows a booking intent,
\* otherwise the answer path, which makes no store call and leaves the
\* booking session alone. While the session is active no message reaches
\* retrieve or generate_answer. A turn is one step that appends the message
\* and then exactly one reply. On the answer path generate_answer is called
\* once, after one retrieve when the session holds a pipeline, provided
\* modules.chat_engine could be imported; when it could not, the reply is the
\* fixed text of app.py and neither retrieve nor generate_answer is called.
AnswerCalls(calls) == {i \in 1..Len(calls) : calls[i].fn \in {"retrieve", "generate_answer"}}
StoreCalls(calls) == {i \in 1..Len(calls) : calls[i].fn \in {"list_bookings", "save_booking", "send_booking_email"}}
FunctionsCalled(calls) == [i \in 1..Len(calls) |-> calls[i].fn]

BookingPath(s, m) == booking_flow[s].active \/ Lex[m].intent

OnePathOneReply(s) ==
    /\ (\E m \in AllMessages : BookingPath(s, m) /\ TurnBy(s, m))
           => /\ turn'.kind = "booking"
              /\ AnswerCalls(turn'.calls) = {}
    /\ (\E m \in AllMessages : ~BookingPath(s, m) /\ TurnBy(s, m))
           => /\ turn'.kind = "chat"
              /\ StoreCalls(turn'.calls) = {}
              /\ booking_flow'[s] = booking_flow[s]
              /\ store' = store
    /\ (\E m \in AllMessages : TurnBy(s, m))
           => /\ turn'.appended = <<"user", "assistant">>
              /\ turn'.reply.kind # "none"

C14_OnePathPerMessage ==
    [][\A s \in SessionIds :
          /\ OnePathOneReply(s)
          /\ (\E m \in AllMessages : ~BookingPath(s, m) /\ TurnBy(s, m))
                 => IF imports.ChatEngine
                    THEN /\ FunctionsCalled(turn'.calls) =
                               IF rag_index[s] # None THEN <<"retrieve", "generate_answer">>
                               ELSE <<"generate_answer">>
                         /\ turn'.reply.kind = "answer"
                    ELSE /\ turn'.calls = <<>>
                         /\ turn'.reply.kind = "engine_unavailable"]_vars

\* a question answered through retrieve and generate_answer, and a message
\* that shows no intent taken by the booking flow of an active session
C14_Witness ==
    /\ turn.kind = "chat"
    /\ FunctionsCalled(turn.calls) = <<"retrieve", "generate_answer">>
    /\ turn.appended = <<"user", "assistant">>
    /\ ~booking_flow[turn.s].active

\* C14 as stated: every message outside the booking path reaches the
\* answer generator
C14_AnswerGeneratorOtherwise ==
    [][\A s \in SessionIds :
          /\ OnePathOneReply(s)
          /\ (\E m \in AllMessages : ~BookingPath(s, m) /\ TurnBy(s, m))
                 => \E i \in 1..Len(turn'.calls) : turn'.calls[i].fn = "generate_answer"]_vars

\* C15: for 0 <= overlap < chunk_size chunk_text returns windows over the
\* tokens of the text: window i starts (i - 1) * (chunk_size - overlap)
\* tokens in and holds chunk_size tokens or, at the end, those that are left;
\* every token is in some chunk; the first chunk followed by each later chunk
\* without its first `overlap` tokens is the token sequence of the text.
RECURSIVE Flatten(_)
Flatten(seqs) == IF seqs = <<>> THEN <<>> ELSE seqs[1] \o Flatten(Tail(seqs))

DropFirst(seq, n) == SubSeq(seq, n + 1, Len(seq))

TokensOf(txt) == split(txt)

ChunkTextReturned == calc.fn = "chunk_text" /\ calc.result # None

WindowsOver(tokens, chunks, chunk_size, overlap) ==
    LET step == chunk_size - overlap
        n == Len(tokens)
        parts == [i \in 1..Len(chunks) |-> TokensOf(chunks[i])]
    IN  /\ Len(chunks) = (n + step - 1) \div step
        /\ \A i \in 1..Len(chunks) :
               /\ parts[i] = SubSeq(tokens, (i - 1) * step + 1, Min((i - 1) * step + chunk_size, n))
               /\ Len(parts[i]) <= chunk_size
               /\ Len(parts[i]) < chunk_size => \A j \in i..Len(chunks) : Len(parts[j]) < chunk_size
        /\ \A k \in 1..n : \E i \in 1..Len(chunks) : \E p \in 1..Len(parts[i]) :
               (i - 1) * step + p = k /\ parts[i][p] = tokens[k]
        /\ Flatten([i \in 1..Len(chunks) |-> IF i = 1 THEN parts[i] ELSE DropFirst(parts[i], overlap)]) = tokens

C15_ChunksCoverAndReconstruct ==
    (ChunkTextReturned /\ 0 <= calc.overlap /\ calc.overlap < calc.chunk_size)
        => WindowsOver(TokensOf(calc.text), calc.result[1], calc.chunk_size, calc.overlap)

\* overlapping windows, the last two of them shorter than chunk_size
C15_Witness ==
    /\ ChunkTextReturned
    /\ calc.overlap = 2
    /\ calc.chunk_size = 3
    /\ Len(TokensOf(calc.text)) = 4
    /\ Len(calc.result[1]) = 4
    /\ Len(TokensOf(calc.result[1][3])) = 2
    /\ Len(TokensOf(calc.result[1][4])) = 1

\* C16: maximal_marginal_relevance returns at most top_k indices, no index
\* twice, each in range(len(candidates)); with n candidates it returns
\* exactly min(top_k, n) of them, and the empty list for no candidates.
MMRReturned == calc.fn = "maximal_marginal_relevance" /\ calc.result # None

C16_MMRSelectsDistinctInRange ==
    MMRReturned =>
        LET selected == calc.result[1]
            n == Len(calc.chunk_embeddings)
        IN  /\ Len(selected) <= calc.top_k
            /\ \A i, j \in 1..Len(selected) : i # j => selected[i] # selected[j]
            /\ \A i \in 1..Len(selected) : selected[i] \in 0..(n - 1)
            /\ Len(selected) = Min(calc.top_k, n)
            /\ n = 0 => selected = <<>>

\* two of three candidates selected, the first of them not candidate 0
C16_Witness ==
    /\ MMRReturned
    /\ Len(calc.chunk_embeddings) = 3
    /\ calc.top_k = 2
    /\ Len(calc.result[1]) = 2
    /\ calc.result[1][1] # 0

\* C17: retrieve never raises; it returns the empty sequence when no index
\* is loaded, the chunk list is empty, the embedding model is unavailable or
\* an embedding call (of the query or of the candidate chunks) fails;
\* otherwise it returns at most top_k chunks, each one of text_chunks, in the
\* order maximal_marginal_relevance gives over the min(4 * top_k, number of
\* chunks) nearest candidates.
RetrieveReturned == calc.fn = "retrieve" /\ calc.result # None

NothingToRetrieve(rp) == rp.index = None \/ Len(rp.text_chunks) = 0 \/ ~rp.sbert

NearestChunks(rp, query, n) ==
    LET ids == SelectSeq(search(rp.index[1], Encode(query), n), LAMBDA i : i # -1)
    IN  [j \in 1..Len(ids) |-> rp.text_chunks[ids[j] + 1]]

C17_RetrieveEmptyOnFailure ==
    RetrieveReturned =>
        LET rp == calc.rp
            chunks == calc.result[1].chunks
        IN  /\ ~calc.result[1].raised
            /\ IF \/ NothingToRetrieve(rp)
                  \/ calc.query_outcome = "error"
                  \/ calc.chunks_outcome = "error"
               THEN chunks = <<>>
               ELSE /\ Len(chunks) <= calc.top_k
                    /\ \A i \in 1..Len(chunks) : \E j \in 1..Len(rp.text_chunks) : chunks[i] = rp.text_chunks[j]
                    /\ LET candidates == NearestChunks(rp, calc.query, Min(4 * calc.top_k, Len(rp.text_chunks)))
                           selected == maximal_marginal_relevance(
                                           Encode(calc.query),
                                           [j \in 1..Len(candidates) |-> Encode(candidates[j])], calc.top_k)
                       IN  chunks = [j \in 1..Len(selected) |-> candidates[selected[j] + 1]]

\* C18: retrieve is read-only and repeatable: a call leaves the index and
\* the chunk list as they were, and a call that follows another with the
\* same query and top_k on the unchanged pipeline, the embedder behaving the
\* same, returns the same chunks in the same order.
RetrieveCalled == calc.fn = "retrieve" /\ calc'.fn = "retrieve" /\ calc'.calls = calc.calls + 1

BuildAborted(s) == ingest[s].pc = "build" /\ ingest'[s].pc = "finish"

NothingIndexed(rp) == ~rp.sbert \/ rp.index = None

C19_NoPartialIndexWithoutEmbedding ==
    [][\A s \in SessionIds :
          /\ BuildAborted(s)
                 => /\ ingest'[s].rp[1].index = ingest[s].rp[1].index
                    /\ ingest'[s].rp[1].text_chunks = ingest[s].rp[1].text_chunks
                    /\ disk' = disk
          /\ (ingest[s].pc = "finish" /\ ingest'[s].pc = "idle" /\ NothingIndexed(ingest[s].rp[1]))
                 => turn'.reply.kind # "index_built"]_vars

\* C20: a load of a user's index that runs while a build_index of that user
\* persists its files sees a vector file and a metadata file of the same
\* build, and a write that fails or stops part-way does not replace a file
\* that was whole.
SameBuild(vectors, chunks) ==
    /\ Len(vectors) = Len(chunks)
    /\ \A i \in 1..Len(chunks) : vectors[i] = Encode(chunks[i])

\* the pipeline of session s as load_index left it
Loaded(s) == ingest[s].pc = "build" /\ ingest[s].rp[1].index # None

LoadSeesOneBuild ==
    \A s \in SessionIds : Loaded(s) => SameBuild(ingest[s].rp[1].index[1], ingest[s].rp[1].text_chunks)

IsWhole(file) == file # None /\ file[1].whole

WholeFilesStayWhole ==
    \A u \in UserIds :
        /\ IsWhole(disk[u].faiss) => IsWhole(disk'[u].faiss)
        /\ IsWhole(disk[u].meta) => IsWhole(disk'[u].meta)

C20_LoadSeesCompletePair == [][LoadSeesOneBuild' /\ WholeFilesStayWhole]_vars

\* C21: a pipeline constructed when only one of the vector file and the
\* metadata file is present and readable ends with index = None and
\* text_chunks = [], and a retrieve that follows returns the empty sequence
\* without raising.
Constructed == calc.fn = "retrieve" /\ "files" \in DOMAIN calc

OnlyOneReadable(files) == IsWhole(files.faiss) # IsWhole(files.meta)

C21_HalfPairLoadsNothing ==
    (Constructed /\ OnlyOneReadable(calc.files))
        => /\ calc.rp.index = None
           /\ calc.rp.text_chunks = <<>>
           /\ calc.result # None => (~calc.result[1].raised /\ calc.result[1].chunks = <<>>)

\* retrieve after a load that found the vector file whole and the metadata
\* file cut short, the model loaded
C21_Witness ==
    /\ Constructed
    /\ IsWhole(calc.files.faiss)
    /\ calc.files.meta = CutFile
    /\ calc.rp.sbert
    /\ calc.result # None
    /\ calc.result[1].chunks = <<>>

\* C22: a save_booking call returns the id of the inserted row when the
\* insert returned a row, and None, raising nothing, when the insert
\* returned no rows or failed; a call makes one insert, so the store grows
\* by that one row or not at all.
SaveBookingCalls(calls) == {i \in 1..Len(calls) : calls[i].fn = "save_booking"}

C22_SaveBookingIdOrNone ==
    [][\A i \in SaveBookingCalls(turn'.calls) :
          LET call == turn'.calls[i]
          IN  /\ call.result \in {"ok", "no_rows", "error_logged"}
              /\ call.result = "ok"
                     => /\ Len(store') = Len(store) + 1
                        /\ SubSeq(store', 1, Len(store)) = store
                        /\ call.id = Some(store'[Len(store')].id)
                        /\ store'[Len(store')].status = "Pending"
              /\ call.result # "ok"
                     => /\ call.id = None
                        /\ store' = store]_vars

\* a call that returned the id of the first row of the store
C22_Witness ==
    /\ SaveBookingCalls(turn.calls) # {}
    /\ \E i \in SaveBookingCalls(turn.calls) : turn.calls[i].result = "ok" /\ turn.calls[i].id = Some(1)
    /\ Len(store) = 1

\* C23: each index maximal_marginal_relevance selects has the highest score
\* lambda * relevance - (1 - lambda) * (highest similarity to an index
\* selected before it, 0 when there is none) among the indices not yet
\* selected, and the lowest index among those with that score; the first
\* selected index is the lowest index of highest relevance to the query.
\* With lambda = 1/2 the score is a quarter of Relevance2 - Redundancy2.
Relevance2(i) == Cos2(calc.query_embedding, calc.chunk_embeddings[i + 1])

Redundancy2(i, chosen) ==
    IF chosen = {} THEN 0
    ELSE LET sims == {Cos2(calc.chunk_embeddings[i + 1], calc.chunk_embeddings[j + 1]) : j \in chosen}
         IN  CHOOSE x \in sims : \A y \in sims : x >= y

C23_MMRPicksBestLowestIndex ==
    MMRReturned =>
        LET selected == calc.result[1]
            n == Len(calc.chunk_embeddings)
        IN  /\ \A p \in 1..Len(selected) :
                   LET chosen == {selected[k] : k \in 1..(p - 1)}
                       pool == (0..(n - 1)) \ chosen
                       score(i) == Relevance2(i) - Redundancy2(i, chosen)
                   IN  /\ selected[p] \in pool
                       /\ \A i \in pool :
                              \/ score(i) < score(selected[p])
                              \/ score(i) = score(selected[p]) /\ selected[p] <= i
            /\ Len(selected) >= 1
                   => \A i \in 0..(n - 1) :
                          \/ Relevance2(i) < Relevance2(selected[1])
                          \/ Relevance2(i) = Relevance2(selected[1]) /\ selected[1] <= i

\* a tie settled by index: two candidates of equal relevance, the lower one
\* selected first although it is not candidate 0
C23_Witness ==
    /\ MMRReturned
    /\ Len(calc.chunk_embeddings) = 3
    /\ Len(calc.result[1]) >= 2
    /\ calc.result[1][1] = 1
    /\ Relevance2(2) = Relevance2(1)
    /\ Relevance2(0) < Relevance2(1)

\* C24: chunk_text terminates for every text, chunk_size >= 1 and
\* overlap >= 0, overlap >= chunk_size included: every iteration of its loop
\* moves the window start forward by at least one token and adds one chunk
\* that is not empty, so there are never more chunks than tokens, an empty
\* text gives no chunks, and the loop returns what chunk_text returns.
InChunkLoop == calc.fn = "chunk_loop"

C24_ChunkLoopAdvances ==
    [][InChunkLoop =>
          /\ calc'.start > calc.start
                 => /\ calc.start < Len(calc.words)
                    /\ Len(calc'.chunks) = Len(calc.chunks) + 1
                    /\ TokensOf(calc'.chunks[Len(calc'.chunks)]) # <<>>
          /\ calc'.start >= calc.start + (IF calc'.returned THEN 0 ELSE 1)
          /\ Len(calc'.chunks) <= Len(calc.words)
          /\ Len(calc'.chunks) <= calc'.start
          /\ calc'.returned
                 => /\ calc'.chunks = chunk_text(calc.text, calc.chunk_size, calc.overlap)
                    /\ calc.words = <<>> => calc'.chunks = <<>>]_vars

\* returned with overlap above chunk_size: one chunk per token
C24_Witness ==
    /\ InChunkLoop
    /\ calc.returned
    /\ calc.overlap > calc.chunk_size
    /\ Len(calc.words) = 3
    /\ Len(calc.chunks) = 3

\* C25: in every reachable state a session is active exactly when its
\* awaiting_field is one of booking_type, date, time, phone, confirm, and
\* inactive exactly when awaiting_field is None; the closing fallback of
\* run_booking_flow ("Let's start over") is never the reply.
AwaitedFields == {"booking_type", "date", "time", "phone", "confirm"}

C25_ActiveIffAwaiting ==
    /\ \A s \in SessionIds :
           /\ booking_flow[s].active <=> booking_flow[s].awaiting_field \in AwaitedFields
           /\ ~booking_flow[s].active <=> booking_flow[s].awaiting_field = "None"
    /\ turn.reply.kind # "start_over"

\* a turn taken in the confirm step that left the session active
C25_Witness ==
    /\ turn.kind = "booking"
    /\ turn.active
    /\ turn.field = "confirm"
    /\ turn.reply.kind = "ask_yes_no"
    /\ turn.s \in SessionIds
    /\ booking_flow[turn.s].active

\* C26: an inactive session has every slot and booking_id null; booking_id
\* is null in every state between turns, also after a successful commit,
\* which resets the session in the turn that assigns it; a booking attempt
\* starts with no booking_type, date or time from the one before.
C26_InactiveSessionIsEmpty ==
    \A s \in SessionIds :
        /\ ~booking_flow[s].active => booking_flow[s] = reset_booking_flow
        /\ booking_flow[s].booking_id = None
        /\ (booking_flow[s].active /\ booking_flow[s].awaiting_field = "booking_type")
               => /\ booking_flow[s].slots.booking_type = None
                  /\ booking_flow[s].slots.date = None
                  /\ booking_flow[s].slots.time = None

\* a second booking attempt entered after a confirmed one
C26_Witness ==
    /\ Len(store) >= 1
    /\ turn.kind = "booking"
    /\ turn.reply.kind = "start"
    /\ turn.s \in SessionIds
    /\ booking_flow[turn.s].active
    /\ booking_flow[turn.s].awaiting_field = "booking_type"

\* C27: every save_booking call of run_booking_flow carries a date that is
\* not earlier than the current date at the moment of the call, also when
\* the calendar date has advanced between the turn that accepted the date
\* and the affirmative answer.
C27_SavedDateNotPast ==
    [][\A i \in SaveBookingCalls(turn'.calls) : ~DateLess(turn'.calls[i].date[1], today')]_vars

\* C28: the conflict check fails open: a turn of the time step whose
\* list_bookings call could not read the store gets an empty list, finds no
\* conflict, stores the time and moves on to the phone or the confirm step,
\* also when the store holds a booking that is not cancelled for the same
\* date and time; the store is left as it was.
ListFailed(calls) == \E i \in 1..Len(calls) : calls[i].fn = "list_bookings" /\ calls[i].result = "error_logged"

C28_ConflictCheckFailsOpen ==
    [][(turn'.kind = "booking" /\ turn'.field = "time" /\ ListFailed(turn'.calls))
          => /\ booking_flow'[turn'.s].slots.time # None
             /\ ~has_booking_conflict(list_bookings(client, configured, store, "error").rows,
                                       booking_flow[turn'.s].slots.date[1],
                                       booking_flow'[turn'.s].slots.time[1])
             /\ booking_flow'[turn'.s].slots.date = booking_flow[turn'.s].slots.date
             /\ booking_flow'[turn'.s].awaiting_field \in {"phone", "confirm"}
             /\ turn'.reply.kind \in {"ask_phone", "summary"}
             /\ ~turn'.raised
             /\ store' = store]_vars

\* a time accepted after a failed read while the store holds a live booking
\* for that date and time
C28_Witness ==
    /\ turn.kind = "booking"
    /\ turn.field = "time"
    /\ ListFailed(turn.calls)
    /\ turn.s \in SessionIds
    /\ booking_flow[turn.s].awaiting_field \in {"phone", "confirm"}
    /\ booking_flow[turn.s].slots.time # None
    /\ StoreHolds(booking_flow[turn.s].slots.date[1], booking_flow[turn.s].slots.time[1])

\* C29: after any sequence of pipeline constructions and build_index calls
\* for one user, failed embeddings and failed writes of either file
\* included, a pipeline whose index is not None holds one vector per entry
\* of text_chunks, each the embedding of the chunk at its position.
BetweenCalls(s) == ingest[s].pc \in {"build", "finish"}

IndexMatchesChunks(rp) == rp.index # None => SameBuild(rp.index[1], rp.text_chunks)

C29_IndexMatchesChunks ==
    \A s \in SessionIds :
        /\ BetweenCalls(s) => IndexMatchesChunks(ingest[s].rp[1])
        /\ rag_index[s] # None => IndexMatchesChunks(rag_index[s][1])

\* C30: handle_booking_msg returns a (reply, flow) pair for every message at
\* every step; the step moves only forward through phone, date, time,
\* reason, confirm; a rejected date or time leaves the flow unchanged; a
\* cancel keyword returns a null flow; save_booking is called only at step
\* confirm on the message "confirm"; and at step confirm any other message
\* gets a reply with the flow unchanged.
LegacySteps == <<"phone", "date", "time", "reason", "confirm">>

StepIndex(step) == CHOOSE i \in 1..Len(LegacySteps) : LegacySteps[i] = step

LegacyCalled == calc.fn = "handle_booking_msg" /\ calc.flow # None /\ calc'.returned # "start"

C30_LegacyAlwaysReturnsPair ==
    [][LegacyCalled =>
          LET flow == calc.flow[1]
              lower == Lower(calc'.msg)
              cancel == lower \in {MsgCancel, MsgStop, MsgExit}
          IN  /\ calc'.returned = "pair"
              /\ calc'.reply # "none"
              /\ cancel => calc'.flow = None
              /\ calc'.flow # None => StepIndex(calc'.flow[1].step) \in {StepIndex(flow.step), StepIndex(flow.step) + 1}
              /\ calc'.reply \in {"date_format", "time_format"} => calc'.flow = calc.flow
              /\ calc'.saves > 0 => (flow.step = "confirm" /\ lower = MsgConfirm)
              /\ (flow.step = "confirm" /\ ~cancel /\ lower # MsgConfirm) => calc'.flow = calc.flow]_vars

====
